---- MODULE Spec2Model ----
(***************************************************************************)
(* In-memory trie update engine (core/store/src/trie/mem/updating.rs).     *)
(*                                                                         *)
(* A MemTrieUpdate session is opened on a root of the immutable arena,     *)
(* applies insert and delete operations to a buffer of updated nodes, and  *)
(* is finalized into MemTrieChanges / TrieChanges, which                   *)
(* construct_root_from_changes replays into the arena.                     *)
(***************************************************************************)
EXTENDS Integers, Sequences, FiniteSets, Bags, TLC

(***************************************************************************)
(* Bounds of the model.                                                    *)
(***************************************************************************)
\* The keys used are the first MaxKeys entries of KeyList.
MaxKeys == 6
\* Values are the byte strings ValueBytes(1) .. ValueBytes(MaxValue).
MaxValue == 2
\* The trie a first session is opened on holds at most MaxInitKeys keys.
MaxInitKeys == 3
\* Number of insert/delete operations issued after Init, over all sessions.
MaxOps == 2
\* Number of times changes are replayed into the arena and a new session is
\* opened on the result.
MaxBatches == 1

(***************************************************************************)
(* Protocol constants (TRIE_COSTS).                                        *)
(***************************************************************************)
node_cost == 50
byte_of_key == 2
byte_of_value == 1

(***************************************************************************)
(* Keys and values.  A key is a byte string.  The list follows the keys of *)
(* test_trie_consistency_manual: a shared first byte, keys that extend     *)
(* other keys, and the empty key.                                          *)
(***************************************************************************)
KeyList ==
  << <<>>, <<0>>, <<1>>, <<0, 0>>, <<0, 1>>, <<16>>, <<1, 0>>,
     <<1, 1>>, <<0, 16>>, <<17>> >>

Keys == {KeyList[i] : i \in 1..MaxKeys}

Values == 1..MaxValue

\* The byte string (Vec<u8>) of value number v: v bytes, each equal to v.
ValueBytes(v) == [bytes |-> [i \in 1..v |-> v]]

(***************************************************************************)
(* Hashes.  hash is collision free: a CryptoHash is modelled by the data   *)
(* it was computed from.  CryptoHash::default() is the zero hash.          *)
(***************************************************************************)
ZeroHash == [zero |-> TRUE]

hash(data) == [preimage |-> data]

\* Option<T>
None == [none |-> TRUE]
Some(x) == [some |-> x]

\* ValueRef::new(value) / FlatStateValue::on_disk(value)
FlatStateValue_on_disk(value) == [hash |-> hash(value), length |-> Len(value.bytes)]

\* FlatStateValue of value number v.
FlatValue(v) == FlatStateValue_on_disk(ValueBytes(v))

(***************************************************************************)
(* NibbleSlice.  A slice is modelled by the sequence of its nibbles.       *)
(***************************************************************************)
\* NibbleSlice::new(bytes)
NibbleSlice_new(bytes) ==
  [i \in 1..(2 * Len(bytes)) |->
     IF i % 2 = 1 THEN bytes[(i + 1) \div 2] \div 16 ELSE bytes[i \div 2] % 16]

\* NibbleSlice::mid(n)
mid(nibbles, n) == SubSeq(nibbles, n + 1, Len(nibbles))

Min(a, b) == IF a < b THEN a ELSE b

\* NibbleSlice::common_prefix
common_prefix(a, b) ==
  LET m == Min(Len(a), Len(b))
      diff == {i \in 1..m : a[i] # b[i]}
  IN  IF diff = {} THEN m ELSE (CHOOSE i \in diff : \A j \in diff : i <= j) - 1

\* NibbleSlice::encoded(is_leaf): a flag byte (0x20 leaf, 0x10 odd length, plus
\* the first nibble when the length is odd) followed by the packed nibble pairs.
encoded(nibbles, is_leaf) ==
  LET l == Len(nibbles)
      odd == l % 2
      first == (IF odd = 1 THEN 16 + nibbles[1] ELSE 0) + (IF is_leaf THEN 32 ELSE 0)
  IN  <<first>> \o
      [j \in 1..((l - odd) \div 2) |-> nibbles[odd + 2 * j - 1] * 16 + nibbles[odd + 2 * j]]

\* NibbleSlice::encoded_leftmost(n, is_leaf)
encoded_leftmost(nibbles, n, is_leaf) ==
  encoded(SubSeq(nibbles, 1, Min(n, Len(nibbles))), is_leaf)

\* NibbleSlice::merge_encoded(other, is_leaf)
merge_encoded(nibbles, other, is_leaf) == encoded(nibbles \o other, is_leaf)

\* NibbleSlice::from_encoded(data): the nibbles and the leaf flag.
from_encoded(data) ==
  LET all == NibbleSlice_new(data)
      offset == IF (data[1] \div 16) % 2 = 1 THEN 1 ELSE 2
  IN  [nibbles |-> mid(all, offset), is_leaf |-> (data[1] \div 32) % 2 = 1]

(***************************************************************************)
(* Node references and updated nodes.                                      *)
(***************************************************************************)
\* OldOrUpdatedNodeId, and the None of Option<OldOrUpdatedNodeId>
Old(id) == [tag |-> "Old", id |-> id]
Updated(id) == [tag |-> "Updated", id |-> id]
NoChild == [tag |-> "None", id |-> 0]

Nibbles == 0..15

\* Box::<[_; 16]>::default()
NoChildren == [i \in Nibbles |-> NoChild]

\* UpdatedMemTrieNode
Empty == [kind |-> "Empty"]
Leaf(extension, value) == [kind |-> "Leaf", extension |-> extension, value |-> value]
Extension(extension, child) ==
  [kind |-> "Extension", extension |-> extension, child |-> child]
Branch(children, value) == [kind |-> "Branch", children |-> children, value |-> value]

\* A slot of updated_nodes holding None: the node was taken.
Hole == [kind |-> "Hole"]

\* Option<MemTrieNodeId>::None; arena node ids are positions 1.. of the arena.
NoNode == 0

NoPanic == "none"

(***************************************************************************)
(* TrieRefcountDeltaMap: hash -> (payload, signed count).                  *)
(***************************************************************************)
EmptyMap == [x \in {} |-> None]

Put(map, k, v) == [x \in (DOMAIN map) \cup {k} |-> IF x = k THEN v ELSE map[x]]

RefcountEntry(map, h) == IF h \in DOMAIN map THEN map[h] ELSE [data |-> None, rc |-> 0]

\* TrieRefcountDeltaMap::add
TrieRefcountDeltaMap_add(map, h, data, refs) ==
  Put(map, h, [data |-> Some(data), rc |-> RefcountEntry(map, h).rc + refs])

\* TrieRefcountDeltaMap::subtract
TrieRefcountDeltaMap_subtract(map, h, refs) ==
  Put(map, h, [RefcountEntry(map, h) EXCEPT !.rc = @ - refs])

\* TrieRefcountDeltaMap::into_changes: the positive entries with their payload
\* and the negative entries with their magnitude; zero entries are dropped.
TrieRefcountDeltaMap_into_changes(map) ==
  [insertions |->
     {[trie_node_or_value_hash |-> h, trie_node_or_value |-> map[h].data, rc |-> map[h].rc] :
        h \in {x \in DOMAIN map : map[x].rc > 0}},
   deletions |->
     {[trie_node_or_value_hash |-> h, rc |-> 0 - map[h].rc] :
        h \in {x \in DOMAIN map : map[x].rc < 0}}]

(***************************************************************************)
(* The arena (memory) is a sequence of immutable nodes; a MemTrieNodeId is *)
(* a position in it.  A node stores the hash it was allocated with and its *)
(* memory usage.                                                           *)
(***************************************************************************)
\* RawTrieNodeWithSize, the wire node that is serialized and hashed.
RawLeaf(extension, value_ref, memory_usage) ==
  [kind |-> "Leaf", extension |-> extension, value |-> value_ref,
   memory_usage |-> memory_usage]
RawExtension(extension, child_hash, memory_usage) ==
  [kind |-> "Extension", extension |-> extension, child |-> child_hash,
   memory_usage |-> memory_usage]
\* RawTrieNode::branch(children, value)
RawBranch(child_hashes, value_ref, memory_usage) ==
  IF value_ref = None
    THEN [kind |-> "BranchNoValue", children |-> child_hashes,
          memory_usage |-> memory_usage]
    ELSE [kind |-> "BranchWithValue", children |-> child_hashes,
          value |-> value_ref.some, memory_usage |-> memory_usage]

\* borsh::to_vec is injective: the serialized bytes are modelled by the wire node.
borsh_to_vec(raw_node_with_size) == [borsh |-> raw_node_with_size]

\* MemTrieNodeView::to_raw_trie_node_with_size
to_raw_trie_node_with_size(memory, id) ==
  LET view == memory[id]
      child_hashes(children) ==
        [i \in Nibbles |->
           IF children[i] = NoNode THEN None ELSE Some(memory[children[i]].node_hash)]
  IN  CASE view.kind = "Leaf" -> RawLeaf(view.extension, view.value, view.memory_usage)
        [] view.kind = "Extension" ->
             RawExtension(view.extension, memory[view.child].node_hash, view.memory_usage)
        [] view.kind = "Branch" ->
             RawBranch(child_hashes(view.children), None, view.memory_usage)
        [] view.kind = "BranchWithValue" ->
             RawBranch(child_hashes(view.children), Some(view.value), view.memory_usage)

\* UpdatedMemTrieNode::convert_children_to_updated
convert_children_to_updated(children) ==
  [i \in Nibbles |-> IF children[i] = NoNode THEN NoChild ELSE Old(children[i])]

\* A variant that leaves out the value of a branch.
from_existing_node_view_DropsValue(view) ==
  CASE view.kind = "Leaf" -> Leaf(view.extension, view.value)
    [] view.kind = "Branch" -> Branch(convert_children_to_updated(view.children), None)
    [] view.kind = "BranchWithValue" ->
         Branch(convert_children_to_updated(view.children), None)
    [] view.kind = "Extension" -> Extension(view.extension, Old(view.child))

\* UpdatedMemTrieNode::from_existing_node_view
from_existing_node_view(view) ==
  CASE view.kind = "Leaf" -> Leaf(view.extension, view.value)
    [] view.kind = "Branch" -> Branch(convert_children_to_updated(view.children), None)
    [] view.kind = "BranchWithValue" ->
         Branch(convert_children_to_updated(view.children), Some(view.value))
    [] view.kind = "Extension" -> Extension(view.extension, Old(view.child))

(***************************************************************************)
(* MemTrieUpdate.  A session is the record of its fields:                  *)
(*   root, memory, updated_nodes, tracked_trie_changes                     *)
(* together with                                                           *)
(*   panic      the message of the assertion that aborted it, or NoPanic   *)
(*   subtracted history: the hashes given to refcount_changes.subtract     *)
(*   squashed   history: the slots squash_node was called on by the last   *)
(*              delete, in call order                                      *)
(*   merged     history: the child slots extend_child took and merged into *)
(*              their parent, without placing them back                    *)
(* updated_nodes[i + 1] is slot i.                                         *)
(***************************************************************************)
Abort(s, message) == IF s.panic = NoPanic THEN [s EXCEPT !.panic = message] ELSE s

Slot(s, index) == s.updated_nodes[index + 1]

\* MemTrieUpdate::take_node
take_node(s, index) ==
  IF s.panic # NoPanic THEN s
  ELSE IF Slot(s, index).kind = "Hole" THEN Abort(s, "Node taken twice")
  ELSE [s EXCEPT !.updated_nodes[index + 1] = Hole]

\* MemTrieUpdate::place_node
place_node(s, index, node) ==
  IF s.panic # NoPanic THEN s
  ELSE IF Slot(s, index).kind # "Hole" THEN Abort(s, "Node placed twice")
  ELSE [s EXCEPT !.updated_nodes[index + 1] = node]

\* MemTrieUpdate::new_updated_node: the new node gets index Len(updated_nodes).
new_updated_node(s, node) ==
  IF s.panic # NoPanic THEN s
  ELSE [s EXCEPT !.updated_nodes = Append(@, node)]

NextIndex(s) == Len(s.updated_nodes)

\* Variant of convert_existing_to_updated that does not decrement the refcount of
\* the converted node.
convert_existing_to_updated_NoSubtract(s, node) ==
  IF s.panic # NoPanic THEN s
  ELSE IF node = NoNode THEN new_updated_node(s, Empty)
  ELSE
    LET node_hash == s.memory[node].node_hash
        raw_node_serialized == borsh_to_vec(to_raw_trie_node_with_size(s.memory, node))
        tracked ==
          IF s.tracked_trie_changes = None THEN s
          ELSE [s EXCEPT
                  !.tracked_trie_changes.some.accesses.nodes =
                     Put(@, node_hash, raw_node_serialized)]
    IN  new_updated_node(tracked, from_existing_node_view(s.memory[node]))

\* A variant that moves the node out of the arena instead of reading it.
convert_existing_to_updated_ConsumesOld(s, node) ==
  IF s.panic # NoPanic THEN s
  ELSE IF node = NoNode THEN new_updated_node(s, Empty)
  ELSE
    LET node_hash == s.memory[node].node_hash
        raw_node_serialized == borsh_to_vec(to_raw_trie_node_with_size(s.memory, node))
        tracked ==
          IF s.tracked_trie_changes = None THEN s
          ELSE [s EXCEPT
                  !.tracked_trie_changes.some.accesses.nodes =
                     Put(@, node_hash, raw_node_serialized),
                  !.tracked_trie_changes.some.refcount_changes =
                     TrieRefcountDeltaMap_subtract(@, node_hash, 1),
                  !.subtracted = @ \cup {node_hash}]
    IN  [new_updated_node(tracked, from_existing_node_view(s.memory[node]))
           EXCEPT !.memory[node].node_hash = ZeroHash]

\* MemTrieUpdate::convert_existing_to_updated
convert_existing_to_updated(s, node) ==
  IF s.panic # NoPanic THEN s
  ELSE IF node = NoNode THEN new_updated_node(s, Empty)
  ELSE
    LET node_hash == s.memory[node].node_hash
        raw_node_serialized == borsh_to_vec(to_raw_trie_node_with_size(s.memory, node))
        tracked ==
          IF s.tracked_trie_changes = None THEN s
          ELSE [s EXCEPT
                  !.tracked_trie_changes.some.accesses.nodes =
                     Put(@, node_hash, raw_node_serialized),
                  !.tracked_trie_changes.some.refcount_changes =
                     TrieRefcountDeltaMap_subtract(@, node_hash, 1),
                  !.subtracted = @ \cup {node_hash}]
    IN  new_updated_node(tracked, from_existing_node_view(s.memory[node]))

\* MemTrieUpdate::ensure_updated: the session after the call; the id it returns
\* is EnsuredId.
ensure_updated(s, node) ==
  IF node.tag = "Old" THEN convert_existing_to_updated(s, node.id) ELSE s

EnsuredId(s, node) == IF node.tag = "Old" THEN NextIndex(s) ELSE node.id

\* Variant of add_refcount_to_value that unwraps the value before it looks at the
\* tracker.
add_refcount_to_value_UnwrapsFirst(s, h, value) ==
  IF s.panic # NoPanic THEN s
  ELSE IF value = None THEN Abort(s, "called Option::unwrap() on a None value")
  ELSE IF s.tracked_trie_changes = None THEN s
  ELSE [s EXCEPT !.tracked_trie_changes.some.refcount_changes =
                    TrieRefcountDeltaMap_add(@, h, value.some, 1)]

\* A variant that records nothing when the raw value is missing.
add_refcount_to_value_SkipsMissingValue(s, h, value) ==
  IF s.panic # NoPanic \/ s.tracked_trie_changes = None THEN s
  ELSE IF value = None THEN s
  ELSE [s EXCEPT !.tracked_trie_changes.some.refcount_changes =
                    TrieRefcountDeltaMap_add(@, h, value.some, 1)]

\* MemTrieUpdate::add_refcount_to_value; value is the Option of the raw bytes.
add_refcount_to_value(s, h, value) ==
  IF s.panic # NoPanic \/ s.tracked_trie_changes = None THEN s
  ELSE IF value = None THEN Abort(s, "called Option::unwrap() on a None value")
  ELSE [s EXCEPT !.tracked_trie_changes.some.refcount_changes =
                    TrieRefcountDeltaMap_add(@, h, value.some, 1)]

\* Variant of subtract_refcount_for_value that does not record the value in
\* accesses.values.
subtract_refcount_for_value_NoAccess(s, value) ==
  IF s.panic # NoPanic \/ s.tracked_trie_changes = None THEN s
  ELSE [s EXCEPT
          !.tracked_trie_changes.some.refcount_changes =
             TrieRefcountDeltaMap_subtract(@, value.hash, 1),
          !.subtracted = @ \cup {value.hash}]

\* MemTrieUpdate::subtract_refcount_for_value
subtract_refcount_for_value(s, value) ==
  IF s.panic # NoPanic \/ s.tracked_trie_changes = None THEN s
  ELSE [s EXCEPT
          !.tracked_trie_changes.some.accesses.values = Put(@, value.hash, value),
          !.tracked_trie_changes.some.refcount_changes =
             TrieRefcountDeltaMap_subtract(@, value.hash, 1),
          !.subtracted = @ \cup {value.hash}]

\* A variant that puts an Empty node in slot 0 and the converted root after it.
MemTrieUpdate_new_RootInSecondSlot(root, memory, track_trie_changes) ==
  convert_existing_to_updated(new_updated_node(
    [root |-> root,
     memory |-> memory,
     updated_nodes |-> <<>>,
     tracked_trie_changes |->
       IF track_trie_changes
         THEN Some([refcount_changes |-> EmptyMap,
                    accesses |-> [nodes |-> EmptyMap, values |-> EmptyMap]])
         ELSE None,
     panic |-> NoPanic,
     subtracted |-> {},
     squashed |-> <<>>,
     merged |-> {}], Empty),
    root)

\* MemTrieUpdate::new
MemTrieUpdate_new(root, memory, track_trie_changes) ==
  convert_existing_to_updated(
    [root |-> root,
     memory |-> memory,
     updated_nodes |-> <<>>,
     tracked_trie_changes |->
       IF track_trie_changes
         THEN Some([refcount_changes |-> EmptyMap,
                    accesses |-> [nodes |-> EmptyMap, values |-> EmptyMap]])
         ELSE None,
     panic |-> NoPanic,
     subtracted |-> {},
     squashed |-> <<>>,
     merged |-> {}],
    root)

(***************************************************************************)
(* insert_impl.  Each arm of the match is an operator; it yields the       *)
(* session after the iteration, the slot and remaining key of the next     *)
(* iteration, and whether the loop ends (break).                           *)
(***************************************************************************)
Continue(s, node_id, partial) ==
  [s |-> s, node_id |-> node_id, partial |-> partial, done |-> FALSE]

Break(s, node_id, partial) ==
  [s |-> s, node_id |-> node_id, partial |-> partial, done |-> TRUE]

\* A variant that places the taken Empty node back instead of the new leaf.
InsertEmpty_PlacesEmpty(s, node_id, partial, flat_value, value) ==
  Break(add_refcount_to_value(place_node(s, node_id, Empty), flat_value.hash, value),
        node_id, partial)

\* UpdatedMemTrieNode::Empty => ...  (s is the session after take_node)
InsertEmpty(s, node_id, partial, flat_value, value) ==
  Break(add_refcount_to_value(
          place_node(s, node_id, Leaf(encoded(partial, TRUE), flat_value)),
          flat_value.hash, value),
        node_id, partial)

\* A variant that overwrites the value of a branch without the decrement for
\* the old value.
InsertBranch_KeepsOldRefcount(s, node, node_id, partial, flat_value, value) ==
  IF partial = <<>>
    THEN
      LET s1 == s
          s2 == place_node(s1, node_id, Branch(node.children, Some(flat_value)))
      IN  Break(add_refcount_to_value(s2, flat_value.hash, value), node_id, partial)
    ELSE
      LET child == node.children[partial[1]]
          s1 == IF child.tag # "None"
                  THEN ensure_updated(s, child) ELSE new_updated_node(s, Empty)
          new_node_id == IF child.tag # "None" THEN EnsuredId(s, child) ELSE NextIndex(s)
          new_children == [node.children EXCEPT ![partial[1]] = Updated(new_node_id)]
      IN  Continue(place_node(s1, node_id, Branch(new_children, node.value)),
                   new_node_id, mid(partial, 1))

\* A variant that descends into the child without placing the branch back.
InsertBranch_DescendNotPlaced(s, node, node_id, partial, flat_value, value) ==
  IF partial = <<>>
    THEN
      LET s1 == IF node.value # None
                  THEN subtract_refcount_for_value(s, node.value.some) ELSE s
          s2 == place_node(s1, node_id, Branch(node.children, Some(flat_value)))
      IN  Break(add_refcount_to_value(s2, flat_value.hash, value), node_id, partial)
    ELSE
      LET child == node.children[partial[1]]
          s1 == IF child.tag # "None"
                  THEN ensure_updated(s, child) ELSE new_updated_node(s, Empty)
          new_node_id == IF child.tag # "None" THEN EnsuredId(s, child) ELSE NextIndex(s)
      IN  Continue(s1, new_node_id, mid(partial, 1))

\* UpdatedMemTrieNode::Branch { children, value: old_value } => ...
InsertBranch(s, node, node_id, partial, flat_value, value) ==
  IF partial = <<>>
    THEN
      LET s1 == IF node.value # None
                  THEN subtract_refcount_for_value(s, node.value.some) ELSE s
          s2 == place_node(s1, node_id, Branch(node.children, Some(flat_value)))
      IN  Break(add_refcount_to_value(s2, flat_value.hash, value), node_id, partial)
    ELSE
      LET child == node.children[partial[1]]
          s1 == IF child.tag # "None"
                  THEN ensure_updated(s, child) ELSE new_updated_node(s, Empty)
          new_node_id == IF child.tag # "None" THEN EnsuredId(s, child) ELSE NextIndex(s)
          new_children == [node.children EXCEPT ![partial[1]] = Updated(new_node_id)]
      IN  Continue(place_node(s1, node_id, Branch(new_children, node.value)),
                   new_node_id, mid(partial, 1))

\* Variant of InsertLeaf that keeps the old value when the key is the leaf's key;
\* the other cases are those of InsertLeaf.
InsertLeaf_KeepsOldValue(s, node, node_id, partial, flat_value, value) ==
  LET existing_key == from_encoded(node.extension).nibbles
      common == common_prefix(partial, existing_key)
  IN  IF common = Len(existing_key) /\ common = Len(partial)
        THEN Break(place_node(s, node_id, node), node_id, partial)
      ELSE IF common = 0
        THEN
          IF existing_key = <<>>
            THEN Continue(place_node(s, node_id, Branch(NoChildren, Some(node.value))),
                          node_id, partial)
            ELSE
              LET new_node_id == NextIndex(s)
                  s1 == new_updated_node(
                          s, Leaf(encoded(mid(existing_key, 1), TRUE), node.value))
                  children == [NoChildren EXCEPT ![existing_key[1]] = Updated(new_node_id)]
              IN  Continue(place_node(s1, node_id, Branch(children, None)),
                           node_id, partial)
      ELSE
        LET new_node_id == NextIndex(s)
            s1 == new_updated_node(
                    s, Leaf(encoded(mid(existing_key, common), TRUE), node.value))
            ext == Extension(encoded_leftmost(partial, common, FALSE), Updated(new_node_id))
        IN  Continue(place_node(s1, node_id, ext), new_node_id, mid(partial, common))

\* A variant whose split encodes the path of the new extension as a leaf's.
InsertLeaf_SplitKeepsLeafFlag(s, node, node_id, partial, flat_value, value) ==
  LET existing_key == from_encoded(node.extension).nibbles
      common == common_prefix(partial, existing_key)
  IN  IF common = Len(existing_key) /\ common = Len(partial)
        THEN
          LET s1 == subtract_refcount_for_value(s, node.value)
              s2 == place_node(s1, node_id, Leaf(node.extension, flat_value))
          IN  Break(add_refcount_to_value(s2, flat_value.hash, value), node_id, partial)
      ELSE IF common = 0
        THEN
          IF existing_key = <<>>
            THEN Continue(place_node(s, node_id, Branch(NoChildren, Some(node.value))),
                          node_id, partial)
            ELSE
              LET new_node_id == NextIndex(s)
                  s1 == new_updated_node(
                          s, Leaf(encoded(mid(existing_key, 1), TRUE), node.value))
                  children == [NoChildren EXCEPT ![existing_key[1]] = Updated(new_node_id)]
              IN  Continue(place_node(s1, node_id, Branch(children, None)),
                           node_id, partial)
      ELSE
        LET new_node_id == NextIndex(s)
            s1 == new_updated_node(
                    s, Leaf(encoded(mid(existing_key, common), TRUE), node.value))
            ext == Extension(encoded_leftmost(partial, common, TRUE), Updated(new_node_id))
        IN  Continue(place_node(s1, node_id, ext), new_node_id, mid(partial, common))

\* A variant that turns a leaf with no common prefix into a one-nibble extension
\* over a leaf first, and re-iterates on the same slot.
InsertLeaf_SplitsViaExtension(s, node, node_id, partial, flat_value, value) ==
  LET existing_key == from_encoded(node.extension).nibbles
      common == common_prefix(partial, existing_key)
  IN  IF common = Len(existing_key) /\ common = Len(partial)
        THEN
          LET s1 == subtract_refcount_for_value(s, node.value)
              s2 == place_node(s1, node_id, Leaf(node.extension, flat_value))
          IN  Break(add_refcount_to_value(s2, flat_value.hash, value), node_id, partial)
      ELSE IF common = 0
        THEN
          IF existing_key = <<>>
            THEN Continue(place_node(s, node_id, Branch(NoChildren, Some(node.value))),
                          node_id, partial)
            ELSE
              LET new_node_id == NextIndex(s)
                  s1 == new_updated_node(
                          s, Leaf(encoded(mid(existing_key, 1), TRUE), node.value))
                  ext == Extension(encoded_leftmost(existing_key, 1, FALSE),
                                   Updated(new_node_id))
              IN  Continue(place_node(s1, node_id, ext), node_id, partial)
      ELSE
        LET new_node_id == NextIndex(s)
            s1 == new_updated_node(
                    s, Leaf(encoded(mid(existing_key, common), TRUE), node.value))
            ext == Extension(encoded_leftmost(partial, common, FALSE), Updated(new_node_id))
        IN  Continue(place_node(s1, node_id, ext), new_node_id, mid(partial, common))

\* A variant that, when it turns a leaf into a branch, refers to the new leaf
\* from two children of the branch.
InsertLeaf_SharesNewLeaf(s, node, node_id, partial, flat_value, value) ==
  LET existing_key == from_encoded(node.extension).nibbles
      common == common_prefix(partial, existing_key)
  IN  IF common = Len(existing_key) /\ common = Len(partial)
        THEN
          LET s1 == subtract_refcount_for_value(s, node.value)
              s2 == place_node(s1, node_id, Leaf(node.extension, flat_value))
          IN  Break(add_refcount_to_value(s2, flat_value.hash, value), node_id, partial)
      ELSE IF common = 0
        THEN
          IF existing_key = <<>>
            THEN Continue(place_node(s, node_id, Branch(NoChildren, Some(node.value))),
                          node_id, partial)
            ELSE
              LET new_node_id == NextIndex(s)
                  s1 == new_updated_node(
                          s, Leaf(encoded(mid(existing_key, 1), TRUE), node.value))
                  children == [NoChildren EXCEPT
                                 ![existing_key[1]] = Updated(new_node_id),
                                 ![15 - existing_key[1]] = Updated(new_node_id)]
              IN  Continue(place_node(s1, node_id, Branch(children, None)),
                           node_id, partial)
      ELSE
        LET new_node_id == NextIndex(s)
            s1 == new_updated_node(
                    s, Leaf(encoded(mid(existing_key, common), TRUE), node.value))
            ext == Extension(encoded_leftmost(partial, common, FALSE), Updated(new_node_id))
        IN  Continue(place_node(s1, node_id, ext), new_node_id, mid(partial, common))

\* UpdatedMemTrieNode::Leaf { extension, value: old_value } => ...
InsertLeaf(s, node, node_id, partial, flat_value, value) ==
  LET existing_key == from_encoded(node.extension).nibbles
      common == common_prefix(partial, existing_key)
  IN  IF common = Len(existing_key) /\ common = Len(partial)
        THEN
          \* We're at the exact leaf. Rewrite the value at this leaf.
          LET s1 == subtract_refcount_for_value(s, node.value)
              s2 == place_node(s1, node_id, Leaf(node.extension, flat_value))
          IN  Break(add_refcount_to_value(s2, flat_value.hash, value), node_id, partial)
      ELSE IF common = 0
        THEN
          \* Convert the leaf to an equivalent branch.
          IF existing_key = <<>>
            THEN Continue(place_node(s, node_id, Branch(NoChildren, Some(node.value))),
                          node_id, partial)
            ELSE
              LET new_node_id == NextIndex(s)
                  s1 == new_updated_node(
                          s, Leaf(encoded(mid(existing_key, 1), TRUE), node.value))
                  children == [NoChildren EXCEPT ![existing_key[1]] = Updated(new_node_id)]
              IN  Continue(place_node(s1, node_id, Branch(children, None)),
                           node_id, partial)
      ELSE
        \* Split this leaf into an extension plus a leaf, and descend into the leaf.
        LET new_node_id == NextIndex(s)
            s1 == new_updated_node(
                    s, Leaf(encoded(mid(existing_key, common), TRUE), node.value))
            ext == Extension(encoded_leftmost(partial, common, FALSE), Updated(new_node_id))
        IN  Continue(place_node(s1, node_id, ext), new_node_id, mid(partial, common))

\* A variant that always keeps the rest of the path in an inner extension, also
\* when the path has a single nibble.
InsertExtension_AlwaysInner(s, node, node_id, partial, flat_value, value) ==
  LET existing_key == from_encoded(node.extension).nibbles
      common == common_prefix(partial, existing_key)
  IN  IF common = 0
        THEN
          LET idx == existing_key[1]
              inner_child == Extension(encoded(mid(existing_key, 1), FALSE), node.child)
              s1 == new_updated_node(s, inner_child)
              children == [NoChildren EXCEPT ![idx] = Updated(NextIndex(s))]
          IN  Continue(place_node(s1, node_id, Branch(children, None)), node_id, partial)
      ELSE IF common = Len(existing_key)
        THEN
          LET s1 == ensure_updated(s, node.child)
              child == EnsuredId(s, node.child)
          IN  Continue(place_node(s1, node_id, Extension(node.extension, Updated(child))),
                       child, mid(partial, common))
      ELSE
        LET inner_child_node_id == NextIndex(s)
            s1 == new_updated_node(
                    s, Extension(encoded(mid(existing_key, common), FALSE), node.child))
            child_node == Extension(encoded_leftmost(existing_key, common, FALSE),
                                    Updated(inner_child_node_id))
        IN  Continue(place_node(s1, node_id, child_node),
                     inner_child_node_id, mid(partial, common))

\* UpdatedMemTrieNode::Extension { extension, child: old_child } => ...
InsertExtension(s, node, node_id, partial, flat_value, value) ==
  LET existing_key == from_encoded(node.extension).nibbles
      common == common_prefix(partial, existing_key)
  IN  IF common = 0
        THEN
          \* Split Extension to Branch.
          LET idx == existing_key[1]
              inner_child == Extension(encoded(mid(existing_key, 1), FALSE), node.child)
              s1 == IF Len(existing_key) = 1 THEN s ELSE new_updated_node(s, inner_child)
              child == IF Len(existing_key) = 1 THEN node.child ELSE Updated(NextIndex(s))
              children == [NoChildren EXCEPT ![idx] = child]
          IN  Continue(place_node(s1, node_id, Branch(children, None)), node_id, partial)
      ELSE IF common = Len(existing_key)
        THEN
          \* Dereference child and descend into it.
          LET s1 == ensure_updated(s, node.child)
              child == EnsuredId(s, node.child)
          IN  Continue(place_node(s1, node_id, Extension(node.extension, Updated(child))),
                       child, mid(partial, common))
      ELSE
        \* Partially shared prefix. Convert to shorter extension and descend into it.
        LET inner_child_node_id == NextIndex(s)
            s1 == new_updated_node(
                    s, Extension(encoded(mid(existing_key, common), FALSE), node.child))
            child_node == Extension(encoded_leftmost(existing_key, common, FALSE),
                                    Updated(inner_child_node_id))
        IN  Continue(place_node(s1, node_id, child_node),
                     inner_child_node_id, mid(partial, common))

\* One iteration of the loop of insert_impl.
InsertIteration(s, node_id, partial, flat_value, value) ==
  LET node == Slot(s, node_id)
      s1 == take_node(s, node_id)
  IN  CASE node.kind = "Empty" -> InsertEmpty(s1, node_id, partial, flat_value, value)
        [] node.kind = "Branch" -> InsertBranch(s1, node, node_id, partial, flat_value, value)
        [] node.kind = "Leaf" -> InsertLeaf(s1, node, node_id, partial, flat_value, value)
        [] node.kind = "Extension" ->
             InsertExtension(s1, node, node_id, partial, flat_value, value)
        [] OTHER -> Break(s1, node_id, partial)

RECURSIVE InsertLoop(_, _, _, _, _)
InsertLoop(s, node_id, partial, flat_value, value) ==
  LET next(r) == IF r.done \/ r.s.panic # NoPanic
                   THEN r.s
                   ELSE InsertLoop(r.s, r.node_id, r.partial, flat_value, value)
  IN  next(InsertIteration(s, node_id, partial, flat_value, value))

\* MemTrieUpdate::insert_impl
insert_impl(s, key, flat_value, value) ==
  InsertLoop([s EXCEPT !.squashed = <<>>], 0, NibbleSlice_new(key), flat_value, value)

\* MemTrieUpdate::insert
insert(s, key, value) == insert_impl(s, key, FlatStateValue_on_disk(value), Some(value))

\* MemTrieUpdate::insert_memtrie_only
insert_memtrie_only(s, key, flat_value) == insert_impl(s, key, flat_value, None)

(***************************************************************************)
(* squash_node and extend_child (GenericTrieUpdateSquash), instantiated    *)
(* for MemTrieUpdate: generic_take_node, generic_place_node and            *)
(* generic_get_node are take_node, place_node and a read of the slot; the  *)
(* memory usage they carry is zeroed and discarded.                        *)
(***************************************************************************)
\* Variant of extend_child that does not merge an extension with a child that is
\* an extension: it keeps the child, as for a branch.
extend_child_NoExtensionMerge(s, node_id, extension, child_ref) ==
  LET merge(s1, child_id) ==
        LET node == Slot(s1, child_id)
            s2 == take_node(s1, child_id)
            s3 == [s2 EXCEPT !.merged = @ \cup {child_id}]
        IN  CASE node.kind = "Empty" -> place_node(s3, node_id, Empty)
              [] node.kind = "Leaf" ->
                   place_node(s3, node_id,
                     Leaf(merge_encoded(from_encoded(extension).nibbles,
                                        from_encoded(node.extension).nibbles, TRUE),
                          node.value))
              [] node.kind = "Branch" ->
                   place_node(place_node(s2, child_id, node), node_id,
                              Extension(extension, Updated(child_id)))
              [] node.kind = "Extension" ->
                   place_node(place_node(s2, child_id, node), node_id,
                              Extension(extension, Updated(child_id)))
              [] OTHER -> s2
  IN  merge(ensure_updated(s, child_ref), EnsuredId(s, child_ref))

\* Variant of extend_child that does not place a branch child back.
extend_child_BranchChildNotPlaced(s, node_id, extension, child_ref) ==
  LET merge(s1, child_id) ==
        LET node == Slot(s1, child_id)
            s2 == take_node(s1, child_id)
            s3 == [s2 EXCEPT !.merged = @ \cup {child_id}]
        IN  CASE node.kind = "Empty" -> place_node(s3, node_id, Empty)
              [] node.kind = "Leaf" ->
                   place_node(s3, node_id,
                     Leaf(merge_encoded(from_encoded(extension).nibbles,
                                        from_encoded(node.extension).nibbles, TRUE),
                          node.value))
              [] node.kind = "Branch" ->
                   place_node(s2, node_id, Extension(extension, Updated(child_id)))
              [] node.kind = "Extension" ->
                   place_node(s3, node_id,
                     Extension(merge_encoded(from_encoded(extension).nibbles,
                                             from_encoded(node.extension).nibbles, FALSE),
                               node.child))
              [] OTHER -> s2
  IN  merge(ensure_updated(s, child_ref), EnsuredId(s, child_ref))

\* A variant that merges an Old child from its arena view, without converting it
\* into a slot of the update buffer.
extend_child_MergesOldInPlace(s, node_id, extension, child_ref) ==
  LET merge(s1, child_id) ==
        LET node == Slot(s1, child_id)
            s2 == take_node(s1, child_id)
            s3 == [s2 EXCEPT !.merged = @ \cup {child_id}]
        IN  CASE node.kind = "Empty" -> place_node(s3, node_id, Empty)
              [] node.kind = "Leaf" ->
                   place_node(s3, node_id,
                     Leaf(merge_encoded(from_encoded(extension).nibbles,
                                        from_encoded(node.extension).nibbles, TRUE),
                          node.value))
              [] node.kind = "Branch" ->
                   place_node(place_node(s2, child_id, node), node_id,
                              Extension(extension, Updated(child_id)))
              [] node.kind = "Extension" ->
                   place_node(s3, node_id,
                     Extension(merge_encoded(from_encoded(extension).nibbles,
                                             from_encoded(node.extension).nibbles, FALSE),
                               node.child))
              [] OTHER -> s2
      in_place(node) ==
        CASE node.kind = "Leaf" ->
               place_node(s, node_id,
                 Leaf(merge_encoded(from_encoded(extension).nibbles,
                                    from_encoded(node.extension).nibbles, TRUE),
                      node.value))
          [] node.kind = "Extension" ->
               place_node(s, node_id,
                 Extension(merge_encoded(from_encoded(extension).nibbles,
                                         from_encoded(node.extension).nibbles, FALSE),
                           node.child))
          [] OTHER -> place_node(s, node_id, Extension(extension, child_ref))
  IN  IF child_ref.tag = "Old"
        THEN in_place(from_existing_node_view(s.memory[child_ref.id]))
        ELSE merge(ensure_updated(s, child_ref), EnsuredId(s, child_ref))

\* A variant that places a leaf child back in its slot after merging it.
extend_child_LeafChildPlacedBack(s, node_id, extension, child_ref) ==
  LET merge(s1, child_id) ==
        LET node == Slot(s1, child_id)
            s2 == take_node(s1, child_id)
            s3 == [s2 EXCEPT !.merged = @ \cup {child_id}]
        IN  CASE node.kind = "Empty" -> place_node(s3, node_id, Empty)
              [] node.kind = "Leaf" ->
                   place_node(place_node(s2, child_id, node), node_id,
                     Leaf(merge_encoded(from_encoded(extension).nibbles,
                                        from_encoded(node.extension).nibbles, TRUE),
                          node.value))
              [] node.kind = "Branch" ->
                   place_node(place_node(s2, child_id, node), node_id,
                              Extension(extension, Updated(child_id)))
              [] node.kind = "Extension" ->
                   place_node(s3, node_id,
                     Extension(merge_encoded(from_encoded(extension).nibbles,
                                             from_encoded(node.extension).nibbles, FALSE),
                               node.child))
              [] OTHER -> s2
  IN  merge(ensure_updated(s, child_ref), EnsuredId(s, child_ref))

\* GenericTrieUpdateSquash::extend_child
extend_child(s, node_id, extension, child_ref) ==
  LET merge(s1, child_id) ==
        LET node == Slot(s1, child_id)
            s2 == take_node(s1, child_id)
            s3 == [s2 EXCEPT !.merged = @ \cup {child_id}]
        IN  CASE node.kind = "Empty" -> place_node(s3, node_id, Empty)
              [] node.kind = "Leaf" ->
                   place_node(s3, node_id,
                     Leaf(merge_encoded(from_encoded(extension).nibbles,
                                        from_encoded(node.extension).nibbles, TRUE),
                          node.value))
              [] node.kind = "Branch" ->
                   place_node(place_node(s2, child_id, node), node_id,
                              Extension(extension, Updated(child_id)))
              [] node.kind = "Extension" ->
                   place_node(s3, node_id,
                     Extension(merge_encoded(from_encoded(extension).nibbles,
                                             from_encoded(node.extension).nibbles, FALSE),
                               node.child))
              [] OTHER -> s2
  IN  merge(ensure_updated(s, child_ref), EnsuredId(s, child_ref))

\* A variant that keeps the children that are now Empty.
RemoveEmptyChildren_KeepsEmpty(s, children) == children

\* The children of a branch after squash_node removed those that are now Empty.
RemoveEmptyChildren(s, children) ==
  [i \in Nibbles |->
     IF children[i].tag = "Updated" /\ Slot(s, children[i].id).kind = "Empty"
       THEN NoChild ELSE children[i]]

\* Variant of SquashBranch that leaves a branch with one child and no value as it
\* is.
SquashBranch_NoCollapse(s, node, node_id) ==
  LET children ==
        [i \in Nibbles |->
           IF node.children[i].tag = "Updated" /\ Slot(s, node.children[i].id).kind = "Empty"
             THEN NoChild ELSE node.children[i]]
      num_children == Cardinality({i \in Nibbles : children[i].tag # "None"})
  IN  IF num_children = 0
        THEN IF node.value = None
               THEN place_node(s, node_id, Empty)
               ELSE place_node(s, node_id, Leaf(encoded(<<>>, TRUE), node.value.some))
        ELSE place_node(s, node_id, Branch(children, node.value))

\* A variant that builds the extension of a collapsed branch from the index of the
\* child without shifting it to the high nibble.
SquashBranch_NibbleNotShifted(s, node, node_id) ==
  LET children == RemoveEmptyChildren(s, node.children)
      present == {i \in Nibbles : children[i].tag # "None"}
      num_children == Cardinality(present)
  IN  IF \E i \in Nibbles :
           node.children[i].tag = "Updated" /\ Slot(s, node.children[i].id).kind = "Hole"
        THEN Abort(s, "called Option::unwrap() on a None value")
      ELSE IF num_children = 0
        THEN IF node.value = None
               THEN place_node(s, node_id, Empty)
               ELSE place_node(s, node_id, Leaf(encoded(<<>>, TRUE), node.value.some))
      ELSE IF num_children = 1 /\ node.value = None
        THEN LET idx == CHOOSE i \in present : TRUE
             IN  extend_child(s, node_id,
                              encoded_leftmost(NibbleSlice_new(<<idx>>), 1, FALSE),
                              children[idx])
      ELSE place_node(s, node_id, Branch(children, node.value))

\* A variant that replaces a branch left with one child and no value by Empty.
SquashBranch_CollapsesToEmpty(s, node, node_id) ==
  LET children == RemoveEmptyChildren(s, node.children)
      present == {i \in Nibbles : children[i].tag # "None"}
      num_children == Cardinality(present)
  IN  IF \E i \in Nibbles :
           node.children[i].tag = "Updated" /\ Slot(s, node.children[i].id).kind = "Hole"
        THEN Abort(s, "called Option::unwrap() on a None value")
      ELSE IF num_children = 0
        THEN IF node.value = None
               THEN place_node(s, node_id, Empty)
               ELSE place_node(s, node_id, Leaf(encoded(<<>>, TRUE), node.value.some))
      ELSE IF num_children = 1 /\ node.value = None
        THEN place_node(s, node_id, Empty)
      ELSE place_node(s, node_id, Branch(children, node.value))

\* GenericUpdatedTrieNode::Branch { mut children, value } => ... of squash_node
SquashBranch(s, node, node_id) ==
  LET children == RemoveEmptyChildren(s, node.children)
      present == {i \in Nibbles : children[i].tag # "None"}
      num_children == Cardinality(present)
  IN  IF \E i \in Nibbles :
           node.children[i].tag = "Updated" /\ Slot(s, node.children[i].id).kind = "Hole"
        THEN Abort(s, "called Option::unwrap() on a None value")
      ELSE IF num_children = 0
        THEN IF node.value = None
               THEN place_node(s, node_id, Empty)
               ELSE place_node(s, node_id, Leaf(encoded(<<>>, TRUE), node.value.some))
      ELSE IF num_children = 1 /\ node.value = None
        THEN LET idx == CHOOSE i \in present : TRUE
             IN  extend_child(s, node_id,
                              encoded_leftmost(NibbleSlice_new(<<(idx * 16) % 256>>), 1, FALSE),
                              children[idx])
      ELSE place_node(s, node_id, Branch(children, node.value))

\* Variant of squash_node that does not place an Empty node back.
squash_node_EmptyNotPlaced(s, node_id) ==
  LET node == Slot(s, node_id)
      s1 == take_node([s EXCEPT !.squashed = Append(@, node_id)], node_id)
  IN  IF s.panic # NoPanic THEN s
      ELSE CASE node.kind = "Leaf" -> Abort(s1, "internal error: entered unreachable code")
             [] node.kind = "Branch" -> SquashBranch(s1, node, node_id)
             [] node.kind = "Extension" -> extend_child(s1, node_id, node.extension, node.child)
             [] OTHER -> s1

\* GenericTrieUpdateSquash::squash_node
squash_node(s, node_id) ==
  LET node == Slot(s, node_id)
      s1 == take_node([s EXCEPT !.squashed = Append(@, node_id)], node_id)
  IN  IF s.panic # NoPanic THEN s
      ELSE CASE node.kind = "Empty" -> place_node(s1, node_id, Empty)
             [] node.kind = "Leaf" -> Abort(s1, "internal error: entered unreachable code")
             [] node.kind = "Branch" -> SquashBranch(s1, node, node_id)
             [] node.kind = "Extension" -> extend_child(s1, node_id, node.extension, node.child)
             [] OTHER -> s1

(***************************************************************************)
(* delete.  As for insert, one operator per arm of the match; found tells  *)
(* whether the loop ended by break (the key was removed) or by return.     *)
(***************************************************************************)
Return(s) == [s |-> s, node_id |-> 0, partial |-> <<>>, done |-> TRUE, found |-> FALSE]

Found(s) == [s |-> s, node_id |-> 0, partial |-> <<>>, done |-> TRUE, found |-> TRUE]

Descend(s, node_id, partial) ==
  [s |-> s, node_id |-> node_id, partial |-> partial, done |-> FALSE, found |-> FALSE]

\* A variant that does not place a leaf of another key back.
DeleteLeaf_MismatchNotPlaced(s, node, node_id, partial) ==
  IF from_encoded(node.extension).nibbles = partial
    THEN Found(place_node(subtract_refcount_for_value(s, node.value), node_id, Empty))
    ELSE Return(s)

\* A variant that removes the value but leaves the leaf in its slot.
DeleteLeaf_FoundKeepsLeaf(s, node, node_id, partial) ==
  IF from_encoded(node.extension).nibbles = partial
    THEN Found(place_node(subtract_refcount_for_value(s, node.value), node_id, node))
    ELSE Return(place_node(s, node_id, node))

\* UpdatedMemTrieNode::Leaf { extension, value } => ...
DeleteLeaf(s, node, node_id, partial) ==
  IF from_encoded(node.extension).nibbles = partial
    THEN Found(place_node(subtract_refcount_for_value(s, node.value), node_id, Empty))
    ELSE Return(place_node(s, node_id, node))

\* UpdatedMemTrieNode::Branch { children: old_children, value } => ...
DeleteBranch(s, node, node_id, partial) ==
  IF partial = <<>>
    THEN IF node.value = None
           THEN Return(place_node(s, node_id, node))
           ELSE Found(place_node(subtract_refcount_for_value(s, node.value.some),
                                 node_id, Branch(node.children, None)))
    ELSE
      LET old_child_id == node.children[partial[1]]
      IN  IF old_child_id.tag = "None"
            THEN Return(place_node(s, node_id, node))
            ELSE
              LET s1 == ensure_updated(s, old_child_id)
                  new_child_id == EnsuredId(s, old_child_id)
                  new_children ==
                    [node.children EXCEPT ![partial[1]] = Updated(new_child_id)]
              IN  Descend(place_node(s1, node_id, Branch(new_children, node.value)),
                          new_child_id, mid(partial, 1))

\* Variant of DeleteExtension that leaves the loop by break when the key does not
\* continue the extension.
DeleteExtension_MismatchBreaks(s, node, node_id, partial) ==
  LET extension_nibbles == from_encoded(node.extension).nibbles
      common == common_prefix(extension_nibbles, partial)
      existing_len == Len(extension_nibbles)
  IN  IF common = existing_len
        THEN
          LET s1 == ensure_updated(s, node.child)
              new_child_id == EnsuredId(s, node.child)
          IN  Descend(place_node(s1, node_id,
                                 Extension(node.extension, Updated(new_child_id))),
                      new_child_id, mid(partial, existing_len))
        ELSE Found(place_node(s, node_id, node))

\* UpdatedMemTrieNode::Extension { extension, child } => ...
DeleteExtension(s, node, node_id, partial) ==
  LET extension_nibbles == from_encoded(node.extension).nibbles
      common == common_prefix(extension_nibbles, partial)
      existing_len == Len(extension_nibbles)
  IN  IF common = existing_len
        THEN
          LET s1 == ensure_updated(s, node.child)
              new_child_id == EnsuredId(s, node.child)
          IN  Descend(place_node(s1, node_id,
                                 Extension(node.extension, Updated(new_child_id))),
                      new_child_id, mid(partial, existing_len))
        ELSE Return(place_node(s, node_id, node))

\* One iteration of the loop of delete.
DeleteIteration(s, node_id, partial) ==
  LET node == Slot(s, node_id)
      s1 == take_node(s, node_id)
  IN  CASE node.kind = "Empty" -> Return(place_node(s1, node_id, Empty))
        [] node.kind = "Leaf" -> DeleteLeaf(s1, node, node_id, partial)
        [] node.kind = "Branch" -> DeleteBranch(s1, node, node_id, partial)
        [] node.kind = "Extension" -> DeleteExtension(s1, node, node_id, partial)
        [] OTHER -> Return(s1)

\* The loop of delete: the session when the loop is left, the path pushed, and
\* whether it was left by break.
RECURSIVE DeleteLoop(_, _, _, _)
DeleteLoop(s, node_id, partial, path) ==
  LET next(r, path1) ==
        IF r.done \/ r.s.panic # NoPanic
          THEN [s |-> r.s, path |-> path1, found |-> r.found]
          ELSE DeleteLoop(r.s, r.node_id, r.partial, path1)
  IN  next(DeleteIteration(s, node_id, partial), Append(path, node_id))

\* A variant that squashes the path in the order of the descent, root first.
RECURSIVE SquashPath_RootFirst(_, _)
SquashPath_RootFirst(s, path) ==
  IF path = <<>> THEN s
  ELSE SquashPath_RootFirst(squash_node(s, path[1]), SubSeq(path, 2, Len(path)))

\* for node_id in path.into_iter().rev() { self.squash_node(node_id).unwrap(); }
RECURSIVE SquashPath(_, _)
SquashPath(s, path) ==
  IF path = <<>> THEN s
  ELSE SquashPath(squash_node(s, path[Len(path)]), SubSeq(path, 1, Len(path) - 1))

\* MemTrieUpdate::delete
delete(s, key) ==
  LET squash(r) == IF r.found THEN SquashPath(r.s, r.path) ELSE r.s
  IN  squash(DeleteLoop([s EXCEPT !.squashed = <<>>], 0, NibbleSlice_new(key), <<>>))

(***************************************************************************)
(* Finalization.                                                           *)
(***************************************************************************)
RECURSIVE post_order_traverse_updated_nodes(_, _, _)
RECURSIVE TraverseChildren(_, _, _, _)

\* A variant that emits a node before its children.
post_order_traverse_updated_nodes_PreOrder(node_id, nodes, acc) ==
  LET node == nodes[node_id + 1]
      push(a) == IF a.panic # NoPanic THEN a
                 ELSE [a EXCEPT !.ordered = Append(@, node_id)]
  IN  IF acc.panic # NoPanic THEN acc
      ELSE CASE node.kind = "Hole" ->
                  [acc EXCEPT !.panic = "called Option::unwrap() on a None value"]
             [] node.kind = "Empty" ->
                  IF node_id = 0 THEN acc
                  ELSE [acc EXCEPT !.panic = "assertion failed: node_id == 0"]
             [] node.kind = "Branch" -> TraverseChildren(node.children, 0, nodes, push(acc))
             [] node.kind = "Extension" ->
                  IF node.child.tag = "Updated"
                    THEN post_order_traverse_updated_nodes(node.child.id, nodes, push(acc))
                    ELSE push(acc)
             [] OTHER -> push(acc)

\* MemTrieUpdate::post_order_traverse_updated_nodes; acc holds ordered_nodes and
\* the panic met so far.
post_order_traverse_updated_nodes(node_id, nodes, acc) ==
  LET node == nodes[node_id + 1]
      push(a) == IF a.panic # NoPanic THEN a
                 ELSE [a EXCEPT !.ordered = Append(@, node_id)]
  IN  IF acc.panic # NoPanic THEN acc
      ELSE CASE node.kind = "Hole" ->
                  [acc EXCEPT !.panic = "called Option::unwrap() on a None value"]
             [] node.kind = "Empty" ->
                  IF node_id = 0 THEN acc
                  ELSE [acc EXCEPT !.panic = "assertion failed: node_id == 0"]
             [] node.kind = "Branch" -> push(TraverseChildren(node.children, 0, nodes, acc))
             [] node.kind = "Extension" ->
                  IF node.child.tag = "Updated"
                    THEN push(post_order_traverse_updated_nodes(node.child.id, nodes, acc))
                    ELSE push(acc)
             [] OTHER -> push(acc)

\* for child in children.iter() { ... } of the Branch arm, from index i on.
TraverseChildren(children, i, nodes, acc) ==
  IF i > 15 THEN acc
  ELSE TraverseChildren(children, i + 1, nodes,
         IF children[i].tag = "Updated"
           THEN post_order_traverse_updated_nodes(children[i].id, nodes, acc)
           ELSE acc)

RECURSIVE SumOver(_, _)
SumOver(f, S) ==
  IF S = {} THEN 0
  ELSE LET x == CHOOSE y \in S : TRUE IN f[x] + SumOver(f, S \ {x})

\* get_hash_and_memory_usage of compute_hashes_and_serialized_nodes
get_hash_and_memory_usage(node, result, memory) ==
  IF node.tag = "Updated"
    THEN [hash |-> result[node.id + 1].hash,
          memory_usage |-> result[node.id + 1].memory_usage]
    ELSE [hash |-> memory[node.id].node_hash,
          memory_usage |-> memory[node.id].memory_usage]

\* A variant that leaves the cost of the value out of the memory usage of a leaf.
RawNodeWithSize_LeafWithoutValueCost(node, result, memory) ==
  CASE node.kind = "Branch" ->
         LET present == {i \in Nibbles : node.children[i].tag # "None"}
             child == [i \in present |->
                         get_hash_and_memory_usage(node.children[i], result, memory)]
             child_hashes == [i \in Nibbles |->
                                IF i \in present THEN Some(child[i].hash) ELSE None]
             memory_usage ==
               node_cost
               + SumOver([i \in present |-> child[i].memory_usage], present)
               + (IF node.value = None THEN 0
                  ELSE node.value.some.length * byte_of_value + node_cost)
             value_ref == node.value
         IN  RawBranch(child_hashes, value_ref, memory_usage)
    [] node.kind = "Extension" ->
         LET child == get_hash_and_memory_usage(node.child, result, memory)
         IN  RawExtension(node.extension, child.hash,
                          node_cost + Len(node.extension) * byte_of_key
                          + child.memory_usage)
    [] node.kind = "Leaf" ->
         RawLeaf(node.extension, node.value,
                 node_cost + Len(node.extension) * byte_of_key)

\* The wire node and memory usage of one updated node (the match of the loop of
\* compute_hashes_and_serialized_nodes).
RawNodeWithSize(node, result, memory) ==
  CASE node.kind = "Branch" ->
         LET present == {i \in Nibbles : node.children[i].tag # "None"}
             child == [i \in present |->
                         get_hash_and_memory_usage(node.children[i], result, memory)]
             child_hashes == [i \in Nibbles |->
                                IF i \in present THEN Some(child[i].hash) ELSE None]
             memory_usage ==
               node_cost
               + SumOver([i \in present |-> child[i].memory_usage], present)
               + (IF node.value = None THEN 0
                  ELSE node.value.some.length * byte_of_value + node_cost)
             value_ref == node.value
         IN  RawBranch(child_hashes, value_ref, memory_usage)
    [] node.kind = "Extension" ->
         LET child == get_hash_and_memory_usage(node.child, result, memory)
         IN  RawExtension(node.extension, child.hash,
                          node_cost + Len(node.extension) * byte_of_key
                          + child.memory_usage)
    [] node.kind = "Leaf" ->
         RawLeaf(node.extension, node.value,
                 node_cost + Len(node.extension) * byte_of_key
                 + node.value.length * byte_of_value + node_cost)

DefaultResult == [hash |-> ZeroHash, memory_usage |-> 0, serialized |-> [bytes |-> <<>>]]

\* The loop of compute_hashes_and_serialized_nodes over ordered_nodes[i..].
RECURSIVE ComputeLoop(_, _, _, _, _)
ComputeLoop(ordered_nodes, i, nodes, memory, acc) ==
  IF i > Len(ordered_nodes) \/ acc.panic # NoPanic THEN acc
  ELSE
    LET node_id == ordered_nodes[i]
        node == nodes[node_id + 1]
    IN  IF node.kind = "Hole"
          THEN [acc EXCEPT !.panic = "called Option::unwrap() on a None value"]
        ELSE IF node.kind = "Empty"
          THEN [acc EXCEPT !.panic = "internal error: entered unreachable code"]
        ELSE
          LET store(raw_node_with_size, node_serialized) ==
                ComputeLoop(ordered_nodes, i + 1, nodes, memory,
                  [acc EXCEPT !.result[node_id + 1] =
                     [hash |-> hash(node_serialized),
                      memory_usage |-> raw_node_with_size.memory_usage,
                      serialized |-> node_serialized]])
              serialize(raw_node_with_size) ==
                store(raw_node_with_size, borsh_to_vec(raw_node_with_size))
          IN  serialize(RawNodeWithSize(node, acc.result, memory))

\* MemTrieUpdate::compute_hashes_and_serialized_nodes: the list of
\* (node_id, hash, serialized), in the order of ordered_nodes.
compute_hashes_and_serialized_nodes(ordered_nodes, nodes, memory) ==
  LET collect(acc) ==
        [panic |-> acc.panic,
         list |-> IF acc.panic # NoPanic THEN <<>>
                  ELSE [i \in 1..Len(ordered_nodes) |->
                          [node_id |-> ordered_nodes[i],
                           hash |-> acc.result[ordered_nodes[i] + 1].hash,
                           serialized |-> acc.result[ordered_nodes[i] + 1].serialized]]]
  IN  collect(ComputeLoop(ordered_nodes, 1, nodes, memory,
                          [result |-> [i \in 1..Len(nodes) |-> DefaultResult],
                           panic |-> NoPanic]))

\* A variant that leaves the first node of the ordered list out of the result.
to_mem_trie_changes_internal_SkipsFirst(s) ==
  LET skip(hs) == IF Len(hs.list) >= 2 THEN [hs EXCEPT !.list = Tail(@)] ELSE hs
      hash_nodes(po) ==
        IF po.panic # NoPanic THEN [panic |-> po.panic, list |-> <<>>]
        ELSE skip(compute_hashes_and_serialized_nodes(po.ordered, s.updated_nodes, s.memory))
      split(hs) ==
        [panic |-> hs.panic,
         mem_trie_changes |->
           [node_ids_with_hashes |->
              [i \in 1..Len(hs.list) |->
                 [node_id |-> hs.list[i].node_id, hash |-> hs.list[i].hash]],
            updated_nodes |-> s.updated_nodes],
         hashes_and_serialized |->
           [i \in 1..Len(hs.list) |->
              [hash |-> hs.list[i].hash, serialized |-> hs.list[i].serialized]]]
  IN  split(hash_nodes(post_order_traverse_updated_nodes(
                         0, s.updated_nodes, [ordered |-> <<>>, panic |-> NoPanic])))

\* MemTrieUpdate::to_mem_trie_changes_internal
to_mem_trie_changes_internal(s) ==
  LET hash_nodes(po) ==
        IF po.panic # NoPanic THEN [panic |-> po.panic, list |-> <<>>]
        ELSE compute_hashes_and_serialized_nodes(po.ordered, s.updated_nodes, s.memory)
      split(hs) ==
        [panic |-> hs.panic,
         mem_trie_changes |->
           [node_ids_with_hashes |->
              [i \in 1..Len(hs.list) |->
                 [node_id |-> hs.list[i].node_id, hash |-> hs.list[i].hash]],
            updated_nodes |-> s.updated_nodes],
         hashes_and_serialized |->
           [i \in 1..Len(hs.list) |->
              [hash |-> hs.list[i].hash, serialized |-> hs.list[i].serialized]]]
  IN  split(hash_nodes(post_order_traverse_updated_nodes(
                         0, s.updated_nodes, [ordered |-> <<>>, panic |-> NoPanic])))

\* MemTrieUpdate::to_mem_trie_changes_only
to_mem_trie_changes_only(s) ==
  LET only(r) == [panic |-> r.panic, mem_trie_changes |-> r.mem_trie_changes,
                  trie_changes |-> None, accesses |-> None]
  IN  only(to_mem_trie_changes_internal(s))

\* for (node_hash, node_serialized) in hashes_and_serialized { refcount_changes.add(..) }
RECURSIVE AddNewNodes(_, _, _)
AddNewNodes(refcount_changes, hashes_and_serialized, i) ==
  IF i > Len(hashes_and_serialized) THEN refcount_changes
  ELSE AddNewNodes(
         TrieRefcountDeltaMap_add(refcount_changes, hashes_and_serialized[i].hash,
                                  hashes_and_serialized[i].serialized, 1),
         hashes_and_serialized, i + 1)

Last(seq) == seq[Len(seq)]

\* A new root taken from the first entry of node_ids_with_hashes, not the last.
NewRoot_First(mem_trie_changes) ==
  IF mem_trie_changes.node_ids_with_hashes = <<>> THEN ZeroHash
  ELSE mem_trie_changes.node_ids_with_hashes[1].hash

\* node_ids_with_hashes.last().map(|(_, hash)| *hash).unwrap_or_default()
NewRoot(mem_trie_changes) ==
  IF mem_trie_changes.node_ids_with_hashes = <<>> THEN ZeroHash
  ELSE Last(mem_trie_changes.node_ids_with_hashes).hash

\* A variant that leaves out the increments for the new nodes.
to_trie_changes_NoNewNodes(s) ==
  IF s.tracked_trie_changes = None
    THEN [panic |-> "Cannot to_trie_changes for memtrie changes only",
          mem_trie_changes |-> None, trie_changes |-> None, accesses |-> None]
    ELSE
      LET old_root == IF s.root = NoNode THEN ZeroHash ELSE s.memory[s.root].node_hash
          result(r, changes) ==
            IF r.panic # NoPanic
              THEN [panic |-> r.panic, mem_trie_changes |-> None, trie_changes |-> None,
                    accesses |-> None]
              ELSE [panic |-> NoPanic,
                    mem_trie_changes |-> r.mem_trie_changes,
                    trie_changes |->
                      Some([old_root |-> old_root,
                            new_root |-> NewRoot(r.mem_trie_changes),
                            insertions |-> changes.insertions,
                            deletions |-> changes.deletions]),
                    accesses |-> Some(s.tracked_trie_changes.some.accesses)]
          add_new_nodes(r) ==
            result(r, TrieRefcountDeltaMap_into_changes(
                        s.tracked_trie_changes.some.refcount_changes))
      IN  add_new_nodes(to_mem_trie_changes_internal(s))

\* A variant that reports the default hash as old_root.
to_trie_changes_OldRootDefault(s) ==
  IF s.tracked_trie_changes = None
    THEN [panic |-> "Cannot to_trie_changes for memtrie changes only",
          mem_trie_changes |-> None, trie_changes |-> None, accesses |-> None]
    ELSE
      LET old_root == ZeroHash
          result(r, changes) ==
            IF r.panic # NoPanic
              THEN [panic |-> r.panic, mem_trie_changes |-> None, trie_changes |-> None,
                    accesses |-> None]
              ELSE [panic |-> NoPanic,
                    mem_trie_changes |-> r.mem_trie_changes,
                    trie_changes |->
                      Some([old_root |-> old_root,
                            new_root |-> NewRoot(r.mem_trie_changes),
                            insertions |-> changes.insertions,
                            deletions |-> changes.deletions]),
                    accesses |-> Some(s.tracked_trie_changes.some.accesses)]
          add_new_nodes(r) ==
            result(r, TrieRefcountDeltaMap_into_changes(
                        AddNewNodes(s.tracked_trie_changes.some.refcount_changes,
                                    r.hashes_and_serialized, 1)))
      IN  add_new_nodes(to_mem_trie_changes_internal(s))

\* MemTrieUpdate::to_trie_changes
to_trie_changes(s) ==
  IF s.tracked_trie_changes = None
    THEN [panic |-> "Cannot to_trie_changes for memtrie changes only",
          mem_trie_changes |-> None, trie_changes |-> None, accesses |-> None]
    ELSE
      LET old_root == IF s.root = NoNode THEN ZeroHash ELSE s.memory[s.root].node_hash
          result(r, changes) ==
            IF r.panic # NoPanic
              THEN [panic |-> r.panic, mem_trie_changes |-> None, trie_changes |-> None,
                    accesses |-> None]
              ELSE [panic |-> NoPanic,
                    mem_trie_changes |-> r.mem_trie_changes,
                    trie_changes |->
                      Some([old_root |-> old_root,
                            new_root |-> NewRoot(r.mem_trie_changes),
                            insertions |-> changes.insertions,
                            deletions |-> changes.deletions]),
                    accesses |-> Some(s.tracked_trie_changes.some.accesses)]
          add_new_nodes(r) ==
            result(r, TrieRefcountDeltaMap_into_changes(
                        AddNewNodes(s.tracked_trie_changes.some.refcount_changes,
                                    r.hashes_and_serialized, 1)))
      IN  add_new_nodes(to_mem_trie_changes_internal(s))

(***************************************************************************)
(* construct_root_from_changes.                                            *)
(***************************************************************************)
\* Memory usage of a node allocated in the arena, from its fields and the memory
\* usage of its children.
InputMemoryUsage(memory, input) ==
  CASE input.kind = "Leaf" ->
         node_cost + Len(input.extension) * byte_of_key
         + input.value.length * byte_of_value + node_cost
    [] input.kind = "Extension" ->
         node_cost + Len(input.extension) * byte_of_key + memory[input.child].memory_usage
    [] OTHER ->
         LET present == {i \in Nibbles : input.children[i] # NoNode}
         IN  node_cost
             + SumOver([i \in present |-> memory[input.children[i]].memory_usage], present)
             + (IF input.kind = "BranchWithValue"
                  THEN input.value.length * byte_of_value + node_cost ELSE 0)

\* MemTrieNodeId::new_with_hash: the arena with the node appended; its id is the
\* new length.
MemTrieNodeId_new_with_hash(memory, input, node_hash) ==
  LET allocate(memory_usage) ==
      Append(memory,
        CASE input.kind = "Leaf" ->
               [kind |-> "Leaf", extension |-> input.extension, value |-> input.value,
                node_hash |-> node_hash, memory_usage |-> memory_usage]
          [] input.kind = "Extension" ->
               [kind |-> "Extension", extension |-> input.extension,
                child |-> input.child,
                node_hash |-> node_hash, memory_usage |-> memory_usage]
          [] input.kind = "Branch" ->
               [kind |-> "Branch", children |-> input.children,
                node_hash |-> node_hash, memory_usage |-> memory_usage]
          [] input.kind = "BranchWithValue" ->
               [kind |-> "BranchWithValue", children |-> input.children,
                value |-> input.value,
                node_hash |-> node_hash, memory_usage |-> memory_usage])
  IN  allocate(InputMemoryUsage(memory, input))

\* map_to_new_node_id of construct_root_from_changes; 0 - 1 stands for the failed
\* unwrap of a missing map entry.
map_to_new_node_id(node_id, updated_to_new_map) ==
  IF node_id.tag = "Updated"
    THEN IF node_id.id \in DOMAIN updated_to_new_map
           THEN updated_to_new_map[node_id.id] ELSE 0 - 1
    ELSE node_id.id

\* The InputMemTrieNode built for an updated node.
InputMemTrieNode(node, updated_to_new_map) ==
  CASE node.kind = "Branch" ->
         LET new_children ==
               [i \in Nibbles |->
                  IF node.children[i].tag = "None" THEN NoNode
                  ELSE map_to_new_node_id(node.children[i], updated_to_new_map)]
         IN  IF node.value = None
               THEN [kind |-> "Branch", children |-> new_children]
               ELSE [kind |-> "BranchWithValue", children |-> new_children,
                     value |-> node.value.some]
    [] node.kind = "Extension" ->
         [kind |-> "Extension", extension |-> node.extension,
          child |-> map_to_new_node_id(node.child, updated_to_new_map)]
    [] node.kind = "Leaf" ->
         [kind |-> "Leaf", extension |-> node.extension, value |-> node.value]

\* The ids an input node refers to.
InputChildren(input) ==
  CASE input.kind = "Leaf" -> {}
    [] input.kind = "Extension" -> {input.child}
    [] OTHER -> {input.children[i] : i \in Nibbles} \ {NoNode}

\* The loop of construct_root_from_changes over node_ids_with_hashes[i..].
RECURSIVE ConstructLoop(_, _, _)
ConstructLoop(changes, i, acc) ==
  IF i > Len(changes.node_ids_with_hashes) \/ acc.panic # NoPanic THEN acc
  ELSE
    LET entry == changes.node_ids_with_hashes[i]
        node == changes.updated_nodes[entry.node_id + 1]
    IN  IF node.kind = "Hole"
          THEN [acc EXCEPT !.panic = "called Option::unwrap() on a None value"]
        ELSE IF node.kind = "Empty"
          THEN [acc EXCEPT !.panic = "internal error: entered unreachable code"]
        ELSE
          LET next(arena) ==
                ConstructLoop(changes, i + 1,
                  [acc EXCEPT
                     !.arena = arena,
                     !.updated_to_new_map = Put(@, entry.node_id, Len(arena)),
                     !.last_node_id = Len(arena)])
              allocate(input) ==
                IF (0 - 1) \in InputChildren(input)
                  THEN [acc EXCEPT !.panic = "called Option::unwrap() on a None value"]
                  ELSE next(MemTrieNodeId_new_with_hash(acc.arena, input, entry.hash))
          IN  allocate(InputMemTrieNode(node, acc.updated_to_new_map))

\* A variant that returns the first node it allocated.
construct_root_from_changes_ReturnsFirst(arena, changes) ==
  LET return(acc) ==
        [arena |-> acc.arena,
         root |-> IF acc.last_node_id = NoNode THEN NoNode ELSE Len(arena) + 1,
         panic |-> acc.panic]
  IN  return(ConstructLoop(changes, 1,
               [arena |-> arena, updated_to_new_map |-> [x \in {} |-> 0],
                last_node_id |-> NoNode, panic |-> NoPanic]))

\* construct_root_from_changes: the arena after the call, the root returned
\* (NoNode for None), and the panic met.
construct_root_from_changes(arena, changes) ==
  LET return(acc) == [arena |-> acc.arena, root |-> acc.last_node_id, panic |-> acc.panic]
  IN  return(ConstructLoop(changes, 1,
               [arena |-> arena, updated_to_new_map |-> [x \in {} |-> 0],
                last_node_id |-> NoNode, panic |-> NoPanic]))

(***************************************************************************)
(* Walking the trie of a session.  A reference is resolved to the node it  *)
(* stands for: the slot of an Updated reference, the arena node of an Old  *)
(* one (whose children are Old references).                                *)
(***************************************************************************)
NodeAt(s, ref) ==
  IF ref.tag = "Updated" THEN Slot(s, ref.id)
  ELSE from_existing_node_view(s.memory[ref.id])

\* The references a node holds.
ChildRefs(node) ==
  CASE node.kind = "Branch" -> {node.children[i] : i \in Nibbles} \ {NoChild}
    [] node.kind = "Extension" -> {node.child}
    [] OTHER -> {}

\* The references reachable from ref, ref included.
RECURSIVE Reachable(_, _)
Reachable(s, ref) ==
  {ref} \cup UNION {Reachable(s, c) : c \in ChildRefs(NodeAt(s, ref))}

\* The (nibble path, value) pairs encoded by the subtree under ref, each path
\* prefixed by prefix: what a lookup from ref finds.
RECURSIVE Mapping(_, _, _)
Mapping(s, ref, prefix) ==
  LET node == NodeAt(s, ref)
  IN  CASE node.kind = "Leaf" ->
             {<<prefix \o from_encoded(node.extension).nibbles, node.value>>}
        [] node.kind = "Extension" ->
             Mapping(s, node.child, prefix \o from_encoded(node.extension).nibbles)
        [] node.kind = "Branch" ->
             (IF node.value = None THEN {} ELSE {<<prefix, node.value.some>>})
             \cup UNION {Mapping(s, node.children[i], prefix \o <<i>>) :
                           i \in {j \in Nibbles : node.children[j] # NoChild}}
        [] OTHER -> {}

(***************************************************************************)
(* The state machine.                                                      *)
(*                                                                         *)
(* root, memory, updated_nodes, tracked_trie_changes are the fields of the *)
(* MemTrieUpdate session; panic, subtracted, squashed and merged are as    *)
(* described above.  phase is "open" while the session accepts operations,           *)
(* "finalized" once it was consumed by to_trie_changes or                  *)
(* to_mem_trie_changes_only (changes holds what that returned), and        *)
(* "applied" once construct_root_from_changes replayed the changes         *)
(* (state_root holds the root it returned), and "dropped" once the session *)
(* or its changes were dropped without being applied.                      *)
(* truth is the map of the tests (TestTries::truth): the value number of   *)
(* every key, 0 when absent.  last describes the last operation.           *)
(***************************************************************************)
VARIABLES root, memory, updated_nodes, tracked_trie_changes, panic, subtracted,
          squashed, merged, phase, changes, state_root, truth, last, ops, batches

vars == <<root, memory, updated_nodes, tracked_trie_changes, panic, subtracted,
          squashed, merged, phase, changes, state_root, truth, last, ops, batches>>

\* The session as a record.
Session ==
  [root |-> root, memory |-> memory, updated_nodes |-> updated_nodes,
   tracked_trie_changes |-> tracked_trie_changes, panic |-> panic,
   subtracted |-> subtracted, squashed |-> squashed, merged |-> merged]

\* The session is s.
SessionIs(s) ==
  /\ root = s.root
  /\ memory = s.memory
  /\ updated_nodes = s.updated_nodes
  /\ tracked_trie_changes = s.tracked_trie_changes
  /\ panic = s.panic
  /\ subtracted = s.subtracted
  /\ squashed = s.squashed
  /\ merged = s.merged

SessionBecomes(s) ==
  /\ root' = s.root
  /\ memory' = s.memory
  /\ updated_nodes' = s.updated_nodes
  /\ tracked_trie_changes' = s.tracked_trie_changes
  /\ panic' = s.panic
  /\ subtracted' = s.subtracted
  /\ squashed' = s.squashed
  /\ merged' = s.merged

NoChanges ==
  [panic |-> NoPanic, mem_trie_changes |-> None, trie_changes |-> None, accesses |-> None]

\* The in-memory trie is loaded by a session without tracking that inserts with
\* insert_memtrie_only and is replayed into the arena (insert_changes_to_memtrie
\* of the tests).  map gives the value number of every key, 0 for a key that is
\* not inserted; the keys are inserted in the order of KeyList, from index i on.
RECURSIVE InsertKeys(_, _, _)
InsertKeys(s, map, i) ==
  IF i > MaxKeys THEN s
  ELSE InsertKeys(IF map[KeyList[i]] # 0
                    THEN insert_memtrie_only(s, KeyList[i], FlatValue(map[KeyList[i]]))
                    ELSE s,
                  map, i + 1)

LoadingSession(map) == InsertKeys(MemTrieUpdate_new(NoNode, <<>>, FALSE), map, 1)

LoadedTrie(map) ==
  construct_root_from_changes(
    <<>>, to_mem_trie_changes_only(LoadingSession(map)).mem_trie_changes)

NoOp == [op |-> "none", key |-> <<>>, value |-> 0, present |-> FALSE]

Init ==
  \E K \in {X \in SUBSET Keys : Cardinality(X) <= MaxInitKeys}, track \in BOOLEAN :
    LET open(loaded) ==
          /\ SessionIs(MemTrieUpdate_new(loaded.root, loaded.arena, track))
          /\ state_root = loaded.root
    IN  /\ open(LoadedTrie([k \in Keys |-> IF k \in K THEN 1 ELSE 0]))
        /\ phase = "open"
        /\ changes = NoChanges
        /\ truth = [k \in Keys |-> IF k \in K THEN 1 ELSE 0]
        /\ last = NoOp
        /\ ops = 0
        /\ batches = 0

\* update.insert(&key, value)
Insert(k, v) ==
  /\ phase = "open"
  /\ panic = NoPanic
  /\ ops < MaxOps
  /\ SessionBecomes(insert(Session, k, ValueBytes(v)))
  /\ truth' = [truth EXCEPT ![k] = v]
  /\ last' = [op |-> "insert", key |-> k, value |-> v, present |-> truth[k] # 0]
  /\ ops' = ops + 1
  /\ UNCHANGED <<phase, changes, state_root, batches>>

\* update.insert_memtrie_only(&key, FlatStateValue::on_disk(&value))
InsertMemtrieOnly(k, v) ==
  /\ phase = "open"
  /\ panic = NoPanic
  /\ ops < MaxOps
  /\ SessionBecomes(insert_memtrie_only(Session, k, FlatValue(v)))
  /\ truth' = [truth EXCEPT ![k] = v]
  /\ last' = [op |-> "insert_memtrie_only", key |-> k, value |-> v,
              present |-> truth[k] # 0]
  /\ ops' = ops + 1
  /\ UNCHANGED <<phase, changes, state_root, batches>>

\* update.delete(&key)
Delete(k) ==
  /\ phase = "open"
  /\ panic = NoPanic
  /\ ops < MaxOps
  /\ SessionBecomes(delete(Session, k))
  /\ truth' = [truth EXCEPT ![k] = 0]
  /\ last' = [op |-> "delete", key |-> k, value |-> 0, present |-> truth[k] # 0]
  /\ ops' = ops + 1
  /\ UNCHANGED <<phase, changes, state_root, batches>>

\* update.to_trie_changes()
ToTrieChanges ==
  /\ phase = "open"
  /\ panic = NoPanic
  /\ changes' = to_trie_changes(Session)
  /\ panic' = changes'.panic
  /\ phase' = "finalized"
  /\ last' = [NoOp EXCEPT !.op = "to_trie_changes"]
  /\ UNCHANGED <<root, memory, updated_nodes, tracked_trie_changes, subtracted,
                 squashed, merged, state_root, truth, ops, batches>>

\* update.to_mem_trie_changes_only()
ToMemTrieChangesOnly ==
  /\ phase = "open"
  /\ panic = NoPanic
  /\ changes' = to_mem_trie_changes_only(Session)
  /\ panic' = changes'.panic
  /\ phase' = "finalized"
  /\ last' = [NoOp EXCEPT !.op = "to_mem_trie_changes_only"]
  /\ UNCHANGED <<root, memory, updated_nodes, tracked_trie_changes, subtracted,
                 squashed, merged, state_root, truth, ops, batches>>

\* construct_root_from_changes(arena, changes)
ConstructRootFromChanges ==
  /\ phase = "finalized"
  /\ panic = NoPanic
  /\ batches < MaxBatches
  /\ LET replayed(r) ==
           /\ memory' = r.arena
           /\ state_root' = r.root
           /\ panic' = r.panic
     IN  replayed(construct_root_from_changes(memory, changes.mem_trie_changes))
  /\ phase' = "applied"
  /\ last' = [NoOp EXCEPT !.op = "construct_root_from_changes"]
  /\ UNCHANGED <<root, updated_nodes, tracked_trie_changes, subtracted, squashed,
                 merged, changes, truth, ops, batches>>

\* The value number of every key in the trie under root id of the arena, 0 for a
\* key it does not hold: the truth of the tests for that root.
TruthOf(arena, id) ==
  LET read(pairs) ==
        [k \in Keys |->
           IF \E v \in Values : <<NibbleSlice_new(k), FlatValue(v)>> \in pairs
             THEN CHOOSE v \in Values : <<NibbleSlice_new(k), FlatValue(v)>> \in pairs
             ELSE 0]
  IN  read(IF id = NoNode THEN {}
           ELSE Mapping([memory |-> arena, updated_nodes |-> <<>>], Old(id), <<>>))

\* The session, or the changes it was finalized into, goes out of scope without
\* being applied: the update buffer and the tracker are freed, the arena and the
\* state root stay, and the mapping is again that of the state root.
Drop ==
  /\ phase \in {"open", "finalized"}
  /\ panic = NoPanic
  /\ root' = NoNode
  /\ updated_nodes' = <<>>
  /\ tracked_trie_changes' = None
  /\ subtracted' = {}
  /\ squashed' = <<>>
  /\ merged' = {}
  /\ changes' = NoChanges
  /\ phase' = "dropped"
  /\ truth' = TruthOf(memory, state_root)
  /\ last' = [NoOp EXCEPT !.op = "drop"]
  /\ UNCHANGED <<memory, panic, state_root, ops, batches>>

\* MemTrieUpdate::new(root, memory, shard_uid, track_trie_changes) on the root the
\* replay returned.
Update(track) ==
  /\ phase \in {"applied", "dropped"}
  /\ panic = NoPanic
  /\ batches < MaxBatches
  /\ SessionBecomes(MemTrieUpdate_new(state_root, memory, track))
  /\ phase' = "open"
  /\ changes' = NoChanges
  /\ last' = [NoOp EXCEPT !.op = "new"]
  /\ batches' = batches + 1
  /\ UNCHANGED <<state_root, truth, ops>>

Next ==
  \/ \E k \in Keys, v \in Values : Insert(k, v)
  \/ \E k \in Keys, v \in Values : InsertMemtrieOnly(k, v)
  \/ \E k \in Keys : Delete(k)
  \/ ToTrieChanges
  \/ ToMemTrieChangesOnly
  \/ ConstructRootFromChanges
  \/ Drop
  \/ \E track \in BOOLEAN : Update(track)

Spec == Init /\ [][Next]_vars

\* The pairs the truth map holds.
TruthMapping ==
  {<<NibbleSlice_new(k), FlatValue(truth[k])>> : k \in {x \in Keys : truth[x] # 0}}

\* The session is between two operations.
Idle == phase = "open" /\ panic = NoPanic

\* The children of a branch that lead to a node.
RealChildren(s, node) ==
  {i \in Nibbles : /\ node.children[i] # NoChild
                   /\ NodeAt(s, node.children[i]).kind \notin {"Empty", "Hole"}}

CanonicalNode(s, node) ==
  CASE node.kind = "Branch" ->
         /\ Cardinality(RealChildren(s, node)) >= 1
         /\ (Cardinality(RealChildren(s, node)) = 1 => node.value # None)
    [] node.kind = "Extension" -> NodeAt(s, node.child).kind = "Branch"
    [] OTHER -> TRUE

CanonicalTrie(s) == \A ref \in Reachable(s, Updated(0)) : CanonicalNode(s, NodeAt(s, ref))

\* The root hash a finalization of session s yields.
FinalRoot(s) == NewRoot(to_mem_trie_changes_internal(s).mem_trie_changes)

\* Some slot is a hole: a merge of extend_child consumed a child.
SomeHole == \E i \in 1..Len(updated_nodes) : updated_nodes[i].kind = "Hole"

\* The last operation was a delete that removed a key.
DeletedKey == Idle /\ last.op = "delete" /\ last.present

\* The last operation was a delete of a key that was absent.
DeletedAbsentKey == Idle /\ last.op = "delete" /\ ~last.present

(***************************************************************************)
(* The reference trie (Trie::update of the disk-backed trie, the `disk` of  *)
(* TestTries).  It is content addressed: a node is known by its hash, and   *)
(* the trie under a root hash is read back from the serialized nodes.  The  *)
(* trie it yields for a key/value mapping is the canonical one, built here  *)
(* from the pairs (nibble path, value) of the mapping: one pair gives a     *)
(* leaf, a shared non-empty prefix gives an extension, anything else a      *)
(* branch.  Its refcount changes are the net difference between the nodes   *)
(* and values of the new trie and those of the old one.                     *)
(***************************************************************************)
\* The length of the longest prefix shared by all the nibble paths of paths.
CommonLen(paths) ==
  LET shared(n) == \A a \in paths, b \in paths :
                     /\ Len(a) >= n /\ Len(b) >= n
                     /\ SubSeq(a, 1, n) = SubSeq(b, 1, n)
  IN  CHOOSE n \in 0..Len(CHOOSE a \in paths : TRUE) : shared(n) /\ ~shared(n + 1)

\* The wire node (RawTrieNodeWithSize) of the canonical trie of a non-empty set
\* of (nibble path, value) pairs.
RECURSIVE DiskNode(_)
DiskNode(pairs) ==
  IF Cardinality(pairs) = 1
    THEN LET p == CHOOSE x \in pairs : TRUE
             ext == encoded(p[1], TRUE)
         IN  RawLeaf(ext, p[2],
                     node_cost + Len(ext) * byte_of_key
                     + p[2].length * byte_of_value + node_cost)
  ELSE
    LET n == CommonLen({p[1] : p \in pairs})
    IN  IF n > 0
          THEN LET any == CHOOSE x \in pairs : TRUE
                   ext == encoded(SubSeq(any[1], 1, n), FALSE)
                   child == DiskNode({<<SubSeq(p[1], n + 1, Len(p[1])), p[2]>> :
                                        p \in pairs})
               IN  RawExtension(ext, hash(borsh_to_vec(child)),
                                node_cost + Len(ext) * byte_of_key + child.memory_usage)
          ELSE LET here == {p \in pairs : p[1] = <<>>}
                   below(i) == {p \in pairs \ here : p[1][1] = i}
                   present == {i \in Nibbles : below(i) # {}}
                   child == [i \in present |->
                               DiskNode({<<Tail(p[1]), p[2]>> : p \in below(i)})]
                   value == IF here = {} THEN None
                            ELSE Some((CHOOSE p \in here : TRUE)[2])
               IN  RawBranch(
                     [i \in Nibbles |->
                        IF i \in present THEN Some(hash(borsh_to_vec(child[i]))) ELSE None],
                     value,
                     node_cost
                     + SumOver([i \in present |-> child[i].memory_usage], present)
                     + (IF value = None THEN 0
                        ELSE value.some.length * byte_of_value + node_cost))

\* The root hash of the reference trie of a mapping.
DiskRoot(pairs) ==
  IF pairs = {} THEN ZeroHash ELSE hash(borsh_to_vec(DiskNode(pairs)))

\* The sum of the bags f[i], i in S.
RECURSIVE BagSum(_, _)
BagSum(f, S) ==
  IF S = {} THEN EmptyBag
  ELSE LET i == CHOOSE x \in S : TRUE IN f[i] (+) BagSum(f, S \ {i})

\* The content-addressed store that holds exactly the trie under root hash h: the
\* hash of every node and value of the trie, as many times as the trie refers
\* to it.
RECURSIVE StoreOfTrie(_)
StoreOfTrie(h) ==
  IF h = ZeroHash THEN EmptyBag
  ELSE
    LET raw == h.preimage.borsh
        present == IF raw.kind \in {"BranchNoValue", "BranchWithValue"}
                     THEN {i \in Nibbles : raw.children[i] # None} ELSE {}
        below == BagSum([i \in present |-> StoreOfTrie(raw.children[i].some)], present)
    IN  SetToBag({h})
        (+) (CASE raw.kind = "Leaf" -> SetToBag({raw.value.hash})
               [] raw.kind = "Extension" -> StoreOfTrie(raw.child)
               [] raw.kind = "BranchNoValue" -> below
               [] raw.kind = "BranchWithValue" -> SetToBag({raw.value.hash}) (+) below)

\* Trie::update on the trie under old_root, with changes that lead to the mapping
\* pairs: the TrieChanges it returns (mem_trie_changes is None there).
Trie_update(old_root, pairs) ==
  LET new_root == DiskRoot(pairs)
      old == StoreOfTrie(old_root)
      new == StoreOfTrie(new_root)
      delta(h) == CopiesIn(h, new) - CopiesIn(h, old)
      hashes == BagToSet(old) \cup BagToSet(new)
  IN  [old_root |-> old_root,
       new_root |-> new_root,
       insertions |->
         {[trie_node_or_value_hash |-> h, trie_node_or_value |-> Some(h.preimage),
           rc |-> delta(h)] : h \in {x \in hashes : delta(x) > 0}},
       deletions |->
         {[trie_node_or_value_hash |-> h, rc |-> 0 - delta(h)] :
            h \in {x \in hashes : delta(x) < 0}}]

\* The hash of the root held by the arena (StateRoot::default() for no root).
RootHash(arena, id) == IF id = NoNode THEN ZeroHash ELSE arena[id].node_hash

\* to_trie_changes returned the changes of a tracking session.
FinalizedWithTrieChanges ==
  phase = "finalized" /\ panic = NoPanic /\ changes.trie_changes # None

\* The changes were replayed into the arena.
Applied == phase = "applied" /\ panic = NoPanic

(***************************************************************************)
(* Properties.                                                             *)
(***************************************************************************)
\* C1: between operations, after any sequence of inserts and deletes on a session
\* opened on a canonical trie, no branch reachable from slot 0 has zero children,
\* none has one child and no value, and no extension leads to an extension or a
\* leaf.
C1_Canonicality == Idle => CanonicalTrie(Session)

\* A delete removed a key from a session opened on a non-empty trie and a merge
\* consumed a child slot.
C1_Witness == DeletedKey /\ root # NoNode /\ Len(squashed) >= 2 /\ SomeHole

\* C2: between operations, the key/value pairs encoded by the trie under slot 0 are
\* those of the reference map: the last value inserted for each key that was not
\* deleted afterwards, and nothing else.
C2_MapSemantics == Idle => Mapping(Session, Updated(0), <<>>) = TruthMapping

\* In a second batch, a key was overwritten after another operation, and other
\* keys are present.
C2_Witness ==
  /\ Idle /\ batches = 1 /\ ops = 2
  /\ last.op = "insert" /\ last.present /\ last.value = 2
  /\ Cardinality(TruthMapping) >= 3

\* C3: the finalized root hash, hence the node structure it is the hash of,
\* depends on the key/value mapping only: whatever operations led to the
\* mapping, the root hash is the one obtained by inserting the keys of the
\* mapping into an empty trie in the order of KeyList.
C3_UniqueShape == Idle => FinalRoot(Session) = FinalRoot(LoadingSession(truth))

\* A key was deleted with a merge, in a session with two operations, and the
\* mapping is not empty.
C3_Witness == DeletedKey /\ ops = 2 /\ SomeHole /\ TruthMapping # {}

\* C4: for every batch, the TrieChanges of the session (old root, new root,
\* refcount insertions and deletions) are those the reference trie returns for
\* the same starting root and the same changes, and the root the replay of the
\* MemTrieChanges puts in the arena has the hash of the reference trie's new
\* root.
C4_ConsistentWithDiskTrie ==
  /\ FinalizedWithTrieChanges =>
       changes.trie_changes.some = Trie_update(RootHash(memory, root), TruthMapping)
  /\ Applied =>
       RootHash(memory, state_root)
         = Trie_update(RootHash(memory, root), TruthMapping).new_root

\* A tracking session on a non-empty trie, with an insert and a delete that
\* removed a key, was finalized with insertions and deletions, and the mapping is
\* not empty.
C4_Witness ==
  /\ FinalizedWithTrieChanges /\ root # NoNode /\ ops = 2
  /\ \E k \in Keys : truth[k] = 2
  /\ Cardinality(TruthMapping) >= 2
  /\ changes.trie_changes.some.insertions # {}
  /\ changes.trie_changes.some.deletions # {}
  /\ SomeHole

\* The refcount delta of every value hash in the session's tracker.
ValueRefcounts(tracked) ==
  IF tracked = None THEN None
  ELSE Some([v \in Values |->
               RefcountEntry(tracked.some.refcount_changes, FlatValue(v).hash).rc])

AccessedValues(tracked) ==
  IF tracked = None THEN {} ELSE DOMAIN tracked.some.accesses.values

\* C5: a delete of a key the trie does not hold does not panic, changes no value
\* refcount, records nothing in accesses.values, runs no squash, and leaves the
\* encoded mapping and the finalized root hash as they were.
C5_DeleteAbsentIsNoOp ==
  [][(last'.op = "delete" /\ ~last'.present) =>
         /\ panic' = NoPanic
         /\ ValueRefcounts(tracked_trie_changes') = ValueRefcounts(tracked_trie_changes)
         /\ AccessedValues(tracked_trie_changes') = AccessedValues(tracked_trie_changes)
         /\ squashed' = <<>>
         /\ Mapping(Session', Updated(0), <<>>) = Mapping(Session, Updated(0), <<>>)
         /\ FinalRoot(Session') = FinalRoot(Session)]_vars

\* An absent key was deleted from a tracking session on a non-empty trie, and the
\* descent converted at least one child.
C5_Witness ==
  /\ DeletedAbsentKey /\ tracked_trie_changes # None /\ root # NoNode
  /\ Len(updated_nodes) >= 2 /\ TruthMapping # {}

\* C6: once every key inserted since the empty trie has been deleted again, slot 0
\* holds Empty, the finalized new root is the zero hash and the replay returns no
\* root.
C6_DeleteAllGivesEmpty ==
  (Idle /\ TruthMapping = {}) =>
    /\ updated_nodes[1] = Empty
    /\ FinalRoot(Session) = ZeroHash
    /\ construct_root_from_changes(
         memory, to_mem_trie_changes_internal(Session).mem_trie_changes).root = NoNode

\* The last of two deletes removed the last key, with a squash of a path of two
\* slots or more.
C6_Witness ==
  /\ DeletedKey /\ TruthMapping = {} /\ ops = 2 /\ Len(squashed) >= 1
  /\ Len(updated_nodes) >= 3

\* C7: the assertions of take_node and place_node never fire.
C7_TakePlaceDiscipline == panic \notin {"Node taken twice", "Node placed twice"}

\* A delete whose squash kept an extension over a branch (the child was taken and
\* placed back) was followed by another operation.
C7_Witness ==
  /\ Idle /\ ops = 2 /\ last.op # "none"
  /\ \E i \in 1..Len(updated_nodes) :
        /\ updated_nodes[i].kind = "Extension"
        /\ updated_nodes[i].child.tag = "Updated"
        /\ Slot(Session, updated_nodes[i].child.id).kind = "Branch"
  /\ SomeHole

\* A hash is the hash of a value.
IsValueHash(h) == \E v \in Values : h = FlatValue(v).hash

\* The refcounts of a store after the insertions and deletions of trie_changes
\* were applied to it.
ApplyTrieChanges(store, trie_changes) ==
  LET inserted(h) == {c \in trie_changes.insertions : c.trie_node_or_value_hash = h}
      deleted(h) == {c \in trie_changes.deletions : c.trie_node_or_value_hash = h}
      rc(S) == IF S = {} THEN 0 ELSE (CHOOSE c \in S : TRUE).rc
      hashes == BagToSet(store)
                \cup {c.trie_node_or_value_hash : c \in trie_changes.insertions}
                \cup {c.trie_node_or_value_hash : c \in trie_changes.deletions}
  IN  [h \in hashes |-> CopiesIn(h, store) + rc(inserted(h)) - rc(deleted(h))]

\* C8: when the insertions and deletions of the TrieChanges are applied to the
\* refcounted store that holds the old_root trie, every node and value reachable
\* from new_root has a positive refcount, no refcount is negative, and nothing
\* with a positive refcount is unreachable from new_root.
C8_RefcountClosure ==
  FinalizedWithTrieChanges =>
    LET trie_changes == changes.trie_changes.some
        store == ApplyTrieChanges(StoreOfTrie(trie_changes.old_root), trie_changes)
        reachable == BagToSet(StoreOfTrie(trie_changes.new_root))
    IN  /\ \A h \in reachable : h \in DOMAIN store /\ store[h] > 0
        /\ \A h \in DOMAIN store : store[h] >= 0
        /\ \A h \in DOMAIN store : store[h] > 0 => h \in reachable

\* A tracking session on a non-empty trie was finalized after a delete that
\* removed a key; nodes of the old trie were dereferenced, new nodes were added,
\* and a value is referred to twice by the new trie.
C8_Witness ==
  /\ FinalizedWithTrieChanges /\ root # NoNode /\ ops >= 1
  /\ changes.trie_changes.some.deletions # {}
  /\ changes.trie_changes.some.insertions # {}
  /\ \E v \in Values :
       CopiesIn(FlatValue(v).hash, StoreOfTrie(changes.trie_changes.some.new_root)) >= 2
  /\ \E c \in changes.trie_changes.some.deletions : IsValueHash(c.trie_node_or_value_hash)

\* C9: in a tracking session, every hash whose refcount the session decremented
\* is in accesses.nodes (a node) or accesses.values (a value), whatever its net
\* refcount delta has become.
C9_AccessedSetComplete ==
  tracked_trie_changes # None =>
    \A h \in subtracted :
      IF IsValueHash(h)
        THEN h \in DOMAIN tracked_trie_changes.some.accesses.values
        ELSE h \in DOMAIN tracked_trie_changes.some.accesses.nodes

\* A value was removed and written again, so that its net delta is not negative,
\* and a converted node is recorded.
C9_Witness ==
  /\ Idle /\ tracked_trie_changes # None
  /\ \E h \in subtracted :
       /\ IsValueHash(h)
       /\ tracked_trie_changes.some.refcount_changes[h].rc >= 0
  /\ \E h \in subtracted : ~IsValueHash(h)

\* The session s as it is without change tracking: make_memtrie_changes_only of
\* the tests opens it with track_trie_changes = false.
WithoutTracking(s) == [s EXCEPT !.tracked_trie_changes = None, !.subtracted = {}]

\* C11: a session with change tracking and a session without it, opened on the
\* same root and given the same operations (insert in the first,
\* insert_memtrie_only with FlatStateValue::on_disk of the value in the second,
\* delete in both), hold the same update buffer after every operation and are
\* finalized into the same MemTrieChanges.
C11_TrackingDoesNotChangeStructure ==
  [][/\ last'.op = "insert" =>
          WithoutTracking(Session')
            = insert_memtrie_only(WithoutTracking(Session), last'.key,
                                  FlatStateValue_on_disk(ValueBytes(last'.value)))
     /\ last'.op = "delete" =>
          WithoutTracking(Session') = delete(WithoutTracking(Session), last'.key)
     /\ last'.op = "new" =>
          WithoutTracking(Session') = MemTrieUpdate_new(state_root, memory, FALSE)
     /\ last'.op = "to_trie_changes" =>
          (changes'.panic = NoPanic =>
             changes'.mem_trie_changes
               = to_mem_trie_changes_only(WithoutTracking(Session)).mem_trie_changes)]_vars

\* A tracking session on a non-empty trie, in which two operations changed value
\* refcounts and a merge consumed a slot, was finalized by to_trie_changes into a
\* non-empty node list.
C11_Witness ==
  /\ FinalizedWithTrieChanges /\ root # NoNode /\ ops = 2 /\ SomeHole
  /\ changes.mem_trie_changes.node_ids_with_hashes # <<>>
  /\ DOMAIN changes.accesses.some.values # {}

\* C12: a session never writes to the arena.  Every step other than the replay
\* of construct_root_from_changes (an insert, a delete with its squashing, either
\* finalization, the drop of a session, the opening of the next one) leaves the
\* arena and the state root as they were, so a dropped session leaves behind the
\* trie it was opened on and nothing to apply.
C12_ArenaUntouched ==
  [][/\ last'.op # "construct_root_from_changes" =>
          memory' = memory /\ state_root' = state_root
     /\ last'.op = "drop" => /\ changes' = NoChanges
                             /\ truth' = TruthOf(memory', state_root')]_vars

\* A session that made every operation of the bound on a loaded trie, converting
\* arena nodes on the way, was dropped.
C12_Witness ==
  /\ phase = "dropped" /\ last.op = "drop"
  /\ state_root # NoNode /\ ops = MaxOps /\ batches = 0
  /\ memory # <<>>

\* C13: the empty batch is the identity.  to_trie_changes on a session that was
\* just opened, with no insert or delete since, returns new_root equal to old_root,
\* the hash of the root the session was opened on (the default hash for the empty
\* trie), and no insertions and no deletions: every refcount has net change zero.
C13_EmptyBatchIsIdentity ==
  [][(last.op \in {"none", "new"} /\ ToTrieChanges /\ changes'.panic = NoPanic) =>
       /\ changes'.trie_changes.some.new_root = changes'.trie_changes.some.old_root
       /\ changes'.trie_changes.some.old_root
            = (IF state_root = NoNode THEN ZeroHash ELSE memory[state_root].node_hash)
       /\ changes'.trie_changes.some.insertions = {}
       /\ changes'.trie_changes.some.deletions = {}]_vars

\* A session opened on a trie of several keys was finalized with no operation:
\* its root was converted, which recorded the access and the decrement, and was
\* serialized again.
C13_Witness ==
  /\ FinalizedWithTrieChanges /\ ops = 0 /\ state_root # NoNode
  /\ Cardinality({k \in Keys : truth[k] # 0}) = MaxInitKeys
  /\ DOMAIN changes.accesses.some.nodes # {}
  /\ Len(changes.mem_trie_changes.node_ids_with_hashes) = 1
  /\ subtracted # {}

\* The same on the empty trie: nothing is serialized and both roots are the
\* default hash.
C13_WitnessEmptyTrie ==
  /\ FinalizedWithTrieChanges /\ ops = 0 /\ state_root = NoNode
  /\ changes.mem_trie_changes.node_ids_with_hashes = <<>>
  /\ changes.trie_changes.some.new_root = ZeroHash

\* C14: between operations, slot 0 holds Empty exactly when the trie encodes no
\* key (the trie under slot 0 yields no pair, and the reference map is empty);
\* otherwise it holds a Leaf, an Extension or a Branch, never a hole.
C14_RootInvariant ==
  Idle =>
    /\ updated_nodes[1].kind \in {"Empty", "Leaf", "Extension", "Branch"}
    /\ updated_nodes[1] = Empty <=> Mapping(Session, Updated(0), <<>>) = {}
    /\ updated_nodes[1] = Empty <=> TruthMapping = {}

\* The second operation on a loaded trie inserted a key that was absent, and it
\* is the only key: the root, Empty before the insert, is a leaf.
C14_Witness ==
  /\ Idle /\ last.op = "insert" /\ ~last.present /\ ops = 2 /\ state_root # NoNode
  /\ updated_nodes[1].kind = "Leaf"
  /\ Cardinality({k \in Keys : truth[k] # 0}) = 1

\* The extensions of the trie under slot 0 of session s, in the arena or updated.
ExtensionsOf(s) ==
  {NodeAt(s, ref) : ref \in {r \in Reachable(s, Updated(0)) : NodeAt(s, r).kind = "Extension"}}

\* C15: between operations, every extension reachable from slot 0 has a nibble
\* path of one nibble or more.
C15_ExtensionNonEmpty ==
  Idle => \A node \in ExtensionsOf(Session) : Len(from_encoded(node.extension).nibbles) >= 1

\* An insert of an absent key split an extension of the loaded trie: the rest of
\* its path, two nibbles, is in a new extension under the new branch.
C15_Witness ==
  /\ Idle /\ last.op = "insert" /\ ~last.present /\ state_root # NoNode
  /\ updated_nodes[1].kind = "Branch"
  /\ \E i \in 2..Len(updated_nodes) :
        /\ updated_nodes[i] \in ExtensionsOf(Session)
        /\ Len(from_encoded(updated_nodes[i].extension).nibbles) = 2

\* C16: between operations, the extension of every leaf reachable from slot 0 is
\* encoded with the leaf flag set and that of every extension with the flag clear.
C16_LeafFlagEncoding ==
  Idle =>
    \A ref \in Reachable(Session, Updated(0)) :
      /\ NodeAt(Session, ref).kind = "Leaf" =>
            from_encoded(NodeAt(Session, ref).extension).is_leaf
      /\ NodeAt(Session, ref).kind = "Extension" =>
            ~from_encoded(NodeAt(Session, ref).extension).is_leaf

\* A delete on a loaded trie squashed a branch into its only child and
\* extend_child merged the paths into a leaf at slot 0, consuming child slots.
C16_Witness ==
  /\ DeletedKey /\ SomeHole /\ state_root # NoNode
  /\ updated_nodes[1].kind = "Leaf"
  /\ Len(from_encoded(updated_nodes[1].extension).nibbles) >= 2
  /\ Len(squashed) >= 2

\* The value refcounts rc after the value numbered old (0 for none) was removed
\* and the value numbered new (0 for none) was written.
ValueRefcountsAfter(rc, old, new) ==
  [v \in Values |-> rc[v] + (IF v = new THEN 1 ELSE 0) - (IF v = old THEN 1 ELSE 0)]

\* C17: in a tracking session, an insert adds exactly +1 to the hash of the value
\* it writes and, when the key held a value, exactly -1 to the hash of that value,
\* which it records in accesses.values; a delete of a key that holds a value adds
\* exactly -1 to the hash of that value and records it; nothing else in an
\* insert or a delete, squash included, changes a value refcount or
\* accesses.values.
C17_ValueRefcountRules ==
  [][tracked_trie_changes # None =>
       /\ LET k == last'.key
              v == last'.value
          IN
            last'.op = "insert" =>
              /\ ValueRefcounts(tracked_trie_changes').some
                   = ValueRefcountsAfter(ValueRefcounts(tracked_trie_changes).some,
                                         truth[k], v)
              /\ AccessedValues(tracked_trie_changes')
                   = AccessedValues(tracked_trie_changes)
                     \cup (IF truth[k] # 0 THEN {FlatValue(truth[k]).hash} ELSE {})
              /\ RefcountEntry(tracked_trie_changes'.some.refcount_changes,
                               FlatValue(v).hash).data = Some(ValueBytes(v))
       /\ LET k == last'.key
          IN
            last'.op = "delete" =>
              /\ ValueRefcounts(tracked_trie_changes').some
                   = ValueRefcountsAfter(ValueRefcounts(tracked_trie_changes).some,
                                         truth[k], 0)
              /\ AccessedValues(tracked_trie_changes')
                   = AccessedValues(tracked_trie_changes)
                     \cup (IF truth[k] # 0 THEN {FlatValue(truth[k]).hash} ELSE {})]_vars

\* In a tracking session a delete removed the only child of a branch that has a
\* value, and the squash moved the value of the branch into a leaf at slot 0; the
\* branch had got the value from a leaf when the child was inserted.
C17_Witness ==
  /\ DeletedKey /\ tracked_trie_changes # None /\ ops = 2 /\ state_root # NoNode
  /\ Len(squashed) >= 1
  /\ updated_nodes[1].kind = "Leaf"
  /\ from_encoded(updated_nodes[1].extension).nibbles = <<>>
  /\ AccessedValues(tracked_trie_changes) # {}
  /\ \E v \in Values : ValueRefcounts(tracked_trie_changes).some[v] = 0 /\
                         FlatValue(v).hash \in AccessedValues(tracked_trie_changes)

\* The slots of session s that are holes.
Holes(s) == {i \in 0..(Len(s.updated_nodes) - 1) : Slot(s, i).kind = "Hole"}

\* C19: between operations, and so when the session is finalized, no slot
\* reachable from slot 0 is a hole; the holes of the buffer are exactly the child
\* slots that extend_child merged into their parent, and no slot refers to one.
\* The traversal, the hashing and the replay never unwrap a hole.
C19_NoReachableHole ==
  /\ Idle =>
       /\ \A ref \in Reachable(Session, Updated(0)) : NodeAt(Session, ref).kind # "Hole"
       /\ Holes(Session) = merged
       /\ \A i \in 0..(Len(updated_nodes) - 1) :
            \A ref \in ChildRefs(Slot(Session, i)) :
              ref.tag = "Updated" => ref.id \notin Holes(Session)
  /\ phase \in {"finalized", "applied"} =>
       panic # "called Option::unwrap() on a None value"

\* Deletes merged two child slots into their parents: two slots are holes, the
\* root is not one of them, and the session was finalized and replayed.
C19_Witness ==
  /\ Applied /\ ops = 2 /\ last.op = "construct_root_from_changes"
  /\ Cardinality(Holes(Session)) >= 2
  /\ merged = Holes(Session)
  /\ updated_nodes[1].kind \in {"Leaf", "Extension"}

\* C20: between operations, no slot other than slot 0 that is reachable from
\* slot 0 holds Empty, and neither does an arena node; the assertion of the
\* post-order traversal and the unreachable Empty arms of the hashing and of the
\* replay are never hit.
C20_NoReachableNonRootEmpty ==
  /\ Idle =>
       \A ref \in Reachable(Session, Updated(0)) \ {Updated(0)} :
         NodeAt(Session, ref).kind # "Empty"
  /\ phase \in {"finalized", "applied"} =>
       panic \notin {"assertion failed: node_id == 0",
                     "internal error: entered unreachable code"}

\* A delete removed a leaf under a branch that keeps two children or more: the
\* slot of the leaf holds Empty, squash_node removed it from the branch, and the
\* session was finalized and replayed.
C20_Witness ==
  /\ Applied /\ last.op = "construct_root_from_changes" /\ ops >= 1
  /\ \E i \in 1..(Len(updated_nodes) - 1) : Slot(Session, i) = Empty
  /\ \E i \in 0..(Len(updated_nodes) - 1) :
       /\ Slot(Session, i).kind = "Branch"
       /\ Updated(i) \in Reachable(Session, Updated(0))
       /\ Cardinality(ChildRefs(Slot(Session, i))) >= 2

\* C21: the squash pass of a delete never takes a leaf: the unreachable!() Leaf
\* arm of squash_node is not executed by any delete.
C21_SquashNeverMeetsLeaf ==
  (phase = "open" /\ last.op = "delete") =>
    panic # "internal error: entered unreachable code"

\* A delete removed a key and squashed a path of two slots or more; the squash of
\* a slot below the root turned that slot into a leaf, and the slots above it
\* were squashed afterwards.
C21_Witness ==
  /\ DeletedKey /\ Len(squashed) >= 2
  /\ \E i \in 1..(Len(squashed) - 1) :
       /\ squashed[i] # 0
       /\ Slot(Session, squashed[i]).kind = "Leaf"
       /\ Updated(squashed[i]) \in Reachable(Session, Updated(0))

Reverse(seq) == [i \in 1..Len(seq) |-> seq[Len(seq) + 1 - i]]

\* The descent of delete(key) on session s: the session when the loop is left,
\* the path it pushed and whether the key was found.
Descent(s, key) == DeleteLoop([s EXCEPT !.squashed = <<>>], 0, NibbleSlice_new(key), <<>>)

\* C22: a delete that finds its key calls squash_node exactly once on every slot
\* of its descent, deepest first and slot 0 last, and only after the descent has
\* removed the value; a delete that does not find its key calls squash_node on
\* no slot.
C22_SquashOrdering ==
  [][LET k == last'.key
     IN
       last'.op = "delete" =>
         LET squashes(r) ==
               IF r.found
                 THEN /\ truth[k] # 0
                      /\ r.s.squashed = <<>>
                      /\ Mapping(r.s, Updated(0), <<>>)
                           = TruthMapping \ {<<NibbleSlice_new(k), FlatValue(truth[k])>>}
                      /\ r.path[1] = 0
                      /\ \A i \in 1..(Len(r.path) - 1) :
                           Updated(r.path[i + 1]) \in ChildRefs(Slot(r.s, r.path[i]))
                      /\ Cardinality({r.path[i] : i \in 1..Len(r.path)}) = Len(r.path)
                      /\ squashed' = Reverse(r.path)
                      /\ squashed'[Len(squashed')] = 0
                 ELSE /\ truth[k] = 0
                      /\ squashed' = <<>>
         IN  squashes(Descent(Session, k))]_vars

\* A delete removed a key three slots deep: squash_node ran on three slots, the
\* deepest first.
C22_Witness ==
  /\ DeletedKey /\ Len(squashed) >= 3
  /\ squashed[Len(squashed)] = 0
  /\ squashed[1] # 0

\* The slots of session s that hold Empty.
EmptySlots(s) == {i \in 0..(Len(s.updated_nodes) - 1) : Slot(s, i) = Empty}

\* C23: an insert does not panic, calls squash_node on no slot and merges no
\* child; the trie it leaves is canonical; it leaves no hole that was not there
\* before, so every slot it took was placed again; and no slot it created or
\* reached holds Empty when it returns (slot 0 of an empty trie became a leaf).
C23_InsertNeedsNoSquash ==
  [][last'.op = "insert" =>
         /\ panic' = NoPanic
         /\ squashed' = <<>>
         /\ merged' = merged
         /\ CanonicalTrie(Session')
         /\ Holes(Session') = Holes(Session)
         /\ EmptySlots(Session') = EmptySlots(Session) \ {0}
         /\ Len(updated_nodes') >= Len(updated_nodes)]_vars

\* An insert of an absent key added slots to a buffer in which an earlier delete
\* had left holes and an unreferenced Empty slot.
C23_Witness ==
  /\ Idle /\ last.op = "insert" /\ ~last.present /\ ops = 2
  /\ Holes(Session) # {} /\ EmptySlots(Session) # {}
  /\ Slot(Session, Len(updated_nodes) - 1).kind = "Leaf"
  /\ updated_nodes[1].kind = "Branch"

\* The iterations of the loop of insert_impl from slot node_id with partial left,
\* at most fuel of them: for each, the slot it took, the kind of node it found,
\* the length of partial, and whether it left the loop.
RECURSIVE InsertSteps(_, _, _, _, _, _)
InsertSteps(s, node_id, partial, flat_value, value, fuel) ==
  LET step(r) ==
        <<[slot |-> node_id, kind |-> Slot(s, node_id).kind, len |-> Len(partial),
           done |-> r.done]>>
        \o (IF r.done \/ r.s.panic # NoPanic THEN <<>>
            ELSE InsertSteps(r.s, r.node_id, r.partial, flat_value, value, fuel - 1))
  IN  IF fuel = 0 THEN <<>>
      ELSE step(InsertIteration(s, node_id, partial, flat_value, value))

\* The same for the loop of delete.
RECURSIVE DeleteSteps(_, _, _, _)
DeleteSteps(s, node_id, partial, fuel) ==
  LET step(r) ==
        <<[slot |-> node_id, kind |-> Slot(s, node_id).kind, len |-> Len(partial),
           done |-> r.done]>>
        \o (IF r.done \/ r.s.panic # NoPanic THEN <<>>
            ELSE DeleteSteps(r.s, r.node_id, r.partial, fuel - 1))
  IN  IF fuel = 0 THEN <<>>
      ELSE step(DeleteIteration(s, node_id, partial))

\* The loop of insert_impl left by break within 2 * n + 2 iterations, n the
\* number of nibbles of the key; the key left never grows; an iteration that
\* keeps it is on a leaf or an extension and is followed, on the same slot, by
\* one on a branch that leaves the loop or advances by one nibble.
InsertTerminates(steps, n) ==
  /\ steps # <<>>
  /\ Len(steps) <= 2 * n + 2
  /\ steps[Len(steps)].done
  /\ steps[1].slot = 0 /\ steps[1].len = n
  /\ \A i \in 1..(Len(steps) - 1) :
       /\ steps[i + 1].len <= steps[i].len
       /\ steps[i + 1].len = steps[i].len =>
            /\ steps[i + 1].slot = steps[i].slot
            /\ steps[i].kind \in {"Leaf", "Extension"}
            /\ steps[i + 1].kind = "Branch"
            /\ \/ steps[i + 1].done
               \/ /\ i + 2 <= Len(steps)
                  /\ steps[i + 2].len = steps[i + 1].len - 1
  /\ \A i \in 1..(Len(steps) - 2) : steps[i + 2].len < steps[i].len

\* The loop of delete left within n + 1 iterations; every iteration that stays
\* in the loop shortens the key left.
DeleteTerminates(steps, n) ==
  /\ steps # <<>>
  /\ Len(steps) <= n + 1
  /\ steps[Len(steps)].done
  /\ steps[1].slot = 0 /\ steps[1].len = n
  /\ \A i \in 1..(Len(steps) - 1) : steps[i + 1].len < steps[i].len

\* C24: between operations, for every key, the descent loops of insert and of
\* delete on the trie of the session finish, within the bounds above.
C24_InsertAndDeleteTerminate ==
  Idle =>
    \A k \in Keys :
      /\ \A v \in Values :
           InsertTerminates(
             InsertSteps(Session, 0, NibbleSlice_new(k), FlatValue(v), Some(ValueBytes(v)),
                         2 * Len(NibbleSlice_new(k)) + 3),
             Len(NibbleSlice_new(k)))
      /\ DeleteTerminates(
           DeleteSteps(Session, 0, NibbleSlice_new(k), Len(NibbleSlice_new(k)) + 2),
           Len(NibbleSlice_new(k)))

\* The trie of the session, reached by an insert, makes the insert of some key
\* re-iterate on a slot after turning an extension into a branch, and the insert
\* of some key re-iterate after turning a leaf into a branch, three slots deep.
C24_Witness ==
  /\ Idle /\ last.op = "insert" /\ ops >= 1
  /\ \E k \in Keys :
       LET steps == InsertSteps(Session, 0, NibbleSlice_new(k), FlatValue(1),
                                Some(ValueBytes(1)), 2 * Len(NibbleSlice_new(k)) + 3)
       IN  \E i \in 1..(Len(steps) - 1) :
             steps[i].kind = "Extension" /\ steps[i + 1].len = steps[i].len
  /\ \E k \in Keys :
       LET steps == InsertSteps(Session, 0, NibbleSlice_new(k), FlatValue(1),
                                Some(ValueBytes(1)), 2 * Len(NibbleSlice_new(k)) + 3)
       IN  /\ Len(steps) >= 4
           /\ \E i \in 1..(Len(steps) - 1) :
                steps[i].kind = "Leaf" /\ steps[i + 1].len = steps[i].len

\* The slots reachable from slot 0 of session s through Updated references.
UpdatedReachable(s) ==
  {ref.id : ref \in {r \in Reachable(s, Updated(0)) : r.tag = "Updated"}}

\* The results of compute_hashes_and_serialized_nodes as node_ids_with_hashes
\* shows them: for each slot emitted its hash and the memory usage in its
\* serialized node, the default for the others.
ResultOf(node_ids_with_hashes, slots) ==
  [j \in 1..slots |->
     IF \E i \in 1..Len(node_ids_with_hashes) : node_ids_with_hashes[i].node_id = j - 1
       THEN LET h == (CHOOSE e \in {node_ids_with_hashes[i] : i \in 1..Len(node_ids_with_hashes)} :
                        e.node_id = j - 1).hash
            IN  [hash |-> h, memory_usage |-> h.preimage.borsh.memory_usage,
                 serialized |-> h.preimage]
       ELSE DefaultResult]

\* C25: in a finalized session the ordered list holds every slot reachable from
\* slot 0 through Updated references once and no other slot, every Updated child
\* before its parent and slot 0 last, or nothing when slot 0 is Empty; the hash of
\* every node is that of its wire node built from the final hashes and memory
\* usages of its children.
C25_PostOrderEmission ==
  (phase = "finalized" /\ panic = NoPanic) =>
    LET emitted == changes.mem_trie_changes.node_ids_with_hashes
        position(id) == CHOOSE i \in 1..Len(emitted) : emitted[i].node_id = id
    IN  /\ {emitted[i].node_id : i \in 1..Len(emitted)}
             = (IF updated_nodes[1] = Empty THEN {} ELSE UpdatedReachable(Session))
        /\ Cardinality({emitted[i].node_id : i \in 1..Len(emitted)}) = Len(emitted)
        /\ updated_nodes[1] # Empty => emitted[Len(emitted)].node_id = 0
        /\ \A i \in 1..Len(emitted) :
             /\ \A ref \in ChildRefs(Slot(Session, emitted[i].node_id)) :
                  ref.tag = "Updated" => position(ref.id) < i
             /\ emitted[i].hash
                  = hash(borsh_to_vec(
                      RawNodeWithSize(Slot(Session, emitted[i].node_id),
                                      ResultOf(emitted, Len(updated_nodes)), memory)))

\* A session was finalized with four updated nodes or more in the list, among
\* them a branch with two Updated children, while other slots of the buffer are
\* holes or unreferenced.
C25_Witness ==
  /\ phase = "finalized" /\ panic = NoPanic /\ ops = 2
  /\ Len(changes.mem_trie_changes.node_ids_with_hashes) >= 4
  /\ Len(updated_nodes) > Len(changes.mem_trie_changes.node_ids_with_hashes)
  /\ \E i \in UpdatedReachable(Session) :
       /\ Slot(Session, i).kind = "Branch"
       /\ Cardinality({r \in ChildRefs(Slot(Session, i)) : r.tag = "Updated"}) >= 2

\* C26: in the TrieChanges of a finalized tracking session, old_root is the hash
\* of the arena root the session was opened on, or the zero hash when it was
\* opened on the empty trie; new_root is the zero hash when the resulting trie
\* holds no key, and otherwise the hash of the last entry of the ordered list,
\* which is the entry of slot 0.
C26_RootHashes ==
  FinalizedWithTrieChanges =>
    LET trie_changes == changes.trie_changes.some
        emitted == changes.mem_trie_changes.node_ids_with_hashes
    IN  /\ root = state_root
        /\ trie_changes.old_root
             = (IF state_root = NoNode THEN ZeroHash ELSE memory[state_root].node_hash)
        /\ IF TruthMapping = {}
             THEN trie_changes.new_root = ZeroHash /\ emitted = <<>>
             ELSE /\ emitted # <<>>
                  /\ emitted[Len(emitted)].node_id = 0
                  /\ trie_changes.new_root = emitted[Len(emitted)].hash
                  /\ trie_changes.new_root # ZeroHash

\* A tracking session opened on a non-empty trie was finalized after two
\* operations that changed the mapping: the two roots differ and the list has
\* several entries.
C26_Witness ==
  /\ FinalizedWithTrieChanges /\ state_root # NoNode /\ ops = 2
  /\ changes.trie_changes.some.new_root # changes.trie_changes.some.old_root
  /\ changes.trie_changes.some.new_root # ZeroHash
  /\ Len(changes.mem_trie_changes.node_ids_with_hashes) >= 3

\* The same when the operations removed every key: new_root is the zero hash.
C26_WitnessEmptied ==
  /\ FinalizedWithTrieChanges /\ state_root # NoNode /\ ops = 2
  /\ changes.trie_changes.some.new_root = ZeroHash
  /\ changes.trie_changes.some.old_root # ZeroHash

\* The arena node that the replay allocates for updated node node with hash h,
\* but for its memory usage, when the arena had base nodes before the replay: an
\* Old child keeps its arena id and an Updated child is the arena id allocated
\* for the entry of its slot in node_ids_with_hashes.
ReplayedNode(node, h, node_ids_with_hashes, base) ==
  LET position(id) == CHOOSE i \in 1..Len(node_ids_with_hashes) :
                        node_ids_with_hashes[i].node_id = id
      handle(ref) == IF ref.tag = "Old" THEN ref.id ELSE base + position(ref.id)
  IN
  CASE node.kind = "Leaf" ->
         [kind |-> "Leaf", extension |-> node.extension, value |-> node.value,
          node_hash |-> h]
    [] node.kind = "Extension" ->
         [kind |-> "Extension", extension |-> node.extension,
          child |-> handle(node.child), node_hash |-> h]
    [] node.kind = "Branch" /\ node.value = None ->
         [kind |-> "Branch",
          children |-> [i \in Nibbles |->
                          IF node.children[i] = NoChild THEN NoNode
                          ELSE handle(node.children[i])],
          node_hash |-> h]
    [] OTHER ->
         [kind |-> "BranchWithValue",
          children |-> [i \in Nibbles |->
                          IF node.children[i] = NoChild THEN NoNode
                          ELSE handle(node.children[i])],
          value |-> node.value.some, node_hash |-> h]

\* An arena node without its memory usage.
WithoutMemoryUsage(view) == [f \in DOMAIN view \ {"memory_usage"} |-> view[f]]

\* C27: the replay of the changes of a finalized session does not fail; it keeps
\* the nodes of the arena and appends one node per entry of node_ids_with_hashes,
\* in order, with the hash of the entry; in each, an Old child is the same arena
\* id and an Updated child is the id allocated for that slot, which was allocated
\* before; it returns the id allocated for slot 0, the last one, or no root
\* exactly when the resulting trie is empty.
C27_Replay ==
  [][last'.op = "construct_root_from_changes" =>
       LET emitted == changes.mem_trie_changes.node_ids_with_hashes
           position(id) == CHOOSE i \in 1..Len(emitted) : emitted[i].node_id = id
       IN  /\ panic' = NoPanic
           /\ Len(memory') = Len(memory) + Len(emitted)
           /\ SubSeq(memory', 1, Len(memory)) = memory
           /\ \A i \in 1..Len(emitted) :
                /\ WithoutMemoryUsage(memory'[Len(memory) + i])
                     = ReplayedNode(
                         changes.mem_trie_changes.updated_nodes[emitted[i].node_id + 1],
                         emitted[i].hash, emitted, Len(memory))
                /\ \A ref \in ChildRefs(
                               changes.mem_trie_changes.updated_nodes[emitted[i].node_id + 1]) :
                     ref.tag = "Updated" =>
                       /\ \E p \in 1..Len(emitted) : emitted[p].node_id = ref.id
                       /\ position(ref.id) < i
           /\ state_root' = NoNode <=> TruthMapping = {}
           /\ state_root' = NoNode <=> emitted = <<>>
           /\ emitted # <<>> =>
                /\ emitted[Len(emitted)].node_id = 0
                /\ state_root' = Len(memory) + Len(emitted)]_vars

\* The changes of a session with two operations were replayed into a non-empty
\* arena: three nodes or more were allocated, one of them with an Old child and
\* one with an Updated child.
C27_Witness ==
  /\ Applied /\ last.op = "construct_root_from_changes" /\ ops = 2
  /\ Len(changes.mem_trie_changes.node_ids_with_hashes) >= 3
  /\ Len(memory) > Len(changes.mem_trie_changes.node_ids_with_hashes)
  /\ state_root = Len(memory)
  /\ \E i \in UpdatedReachable(Session) :
       \E a, b \in ChildRefs(Slot(Session, i)) : a.tag = "Old" /\ b.tag = "Updated"

\* The Old references reachable from slot 0 of session s.
OldReachable(s) == {r \in Reachable(s, Updated(0)) : r.tag = "Old"}

\* ensure_updated(ref) on session s, ref an Old reference, gave session s1: one
\* slot was appended, at the index returned, with a node that encodes what the
\* arena node encodes, serializes to the hash of the arena node, and whose
\* children are Old; nothing else of the buffer, the
\* root and the arena changed; with tracking, the refcount of the hash of the
\* arena node went down by one, no other refcount changed, and the serialized
\* node was recorded in accesses.nodes under its hash.
ConvertedLazily(s, ref, s1) ==
  LET node_hash == s.memory[ref.id].node_hash
      new == Slot(s1, Len(s.updated_nodes))
  IN  /\ s1.panic = NoPanic
      /\ EnsuredId(s, ref) = Len(s.updated_nodes)
      /\ Len(s1.updated_nodes) = Len(s.updated_nodes) + 1
      /\ SubSeq(s1.updated_nodes, 1, Len(s.updated_nodes)) = s.updated_nodes
      /\ new.kind \in {"Leaf", "Extension", "Branch"}
      /\ \A c \in ChildRefs(new) : c.tag = "Old"
      /\ ChildRefs(new) = ChildRefs(NodeAt(s, ref))
      /\ Mapping(s1, Updated(Len(s.updated_nodes)), <<>>) = Mapping(s, ref, <<>>)
      /\ hash(borsh_to_vec(RawNodeWithSize(new, <<>>, s.memory))) = node_hash
      /\ s1.root = s.root /\ s1.memory = s.memory
      /\ s1.squashed = s.squashed /\ s1.merged = s.merged
      /\ IF s.tracked_trie_changes = None
           THEN s1.tracked_trie_changes = None
           ELSE LET before == s.tracked_trie_changes.some
                    after == s1.tracked_trie_changes.some
                IN  /\ RefcountEntry(after.refcount_changes, node_hash).rc
                         = RefcountEntry(before.refcount_changes, node_hash).rc - 1
                    /\ \A x \in (DOMAIN after.refcount_changes
                                  \cup DOMAIN before.refcount_changes) \ {node_hash} :
                         RefcountEntry(after.refcount_changes, x)
                           = RefcountEntry(before.refcount_changes, x)
                    /\ DOMAIN after.accesses.nodes
                         = DOMAIN before.accesses.nodes \cup {node_hash}
                    /\ hash(after.accesses.nodes[node_hash]) = node_hash
                    /\ \A x \in DOMAIN before.accesses.nodes \ {node_hash} :
                         after.accesses.nodes[x] = before.accesses.nodes[x]
                    /\ after.accesses.values = before.accesses.values

\* C28: between operations, ensure_updated on any Old reference of the trie
\* converts that node alone, as above, and ensure_updated on any Updated
\* reference returns its index and changes nothing.
C28_LazyConversion ==
  Idle =>
    /\ \A ref \in OldReachable(Session) :
         ConvertedLazily(Session, ref, ensure_updated(Session, ref))
    /\ \A i \in 0..(Len(updated_nodes) - 1) :
         /\ ensure_updated(Session, Updated(i)) = Session
         /\ EnsuredId(Session, Updated(i)) = i

\* In a tracking session two operations converted nodes below the root; slots
\* converted from the arena have Old children, among them a branch of the arena
\* with a value and children, and the arena nodes converted are in accesses.nodes.
C28_Witness ==
  /\ Idle /\ tracked_trie_changes # None /\ ops = 2
  /\ Cardinality(DOMAIN tracked_trie_changes.some.accesses.nodes) >= 3
  /\ \E ref \in OldReachable(Session) :
       /\ memory[ref.id].kind = "BranchWithValue"
       /\ ChildRefs(NodeAt(Session, ref)) # {}
  /\ \E i \in 1..(Len(updated_nodes) - 1) :
       /\ Slot(Session, i).kind \in {"Branch", "Extension"}
       /\ \A c \in ChildRefs(Slot(Session, i)) : c.tag = "Old"

\* C29: slot 0 is the working root.  A session that was just opened has one slot,
\* slot 0, with the converted root of the trie, or Empty for the empty trie;
\* between operations slot 0 is not a hole, was not merged away, and no slot
\* refers to it; the key of the last insert is found from slot 0 with the value
\* written, the key of the last delete is not found from slot 0, and the squash
\* pass of a delete that removed its key ended at slot 0.
C29_SlotZeroIsWorkingRoot ==
  /\ (phase = "open" /\ last.op \in {"none", "new"}) =>
       /\ root = state_root
       /\ updated_nodes
            = <<IF state_root = NoNode THEN Empty
                ELSE from_existing_node_view(memory[state_root])>>
  /\ Idle =>
       /\ updated_nodes # <<>>
       /\ updated_nodes[1].kind # "Hole"
       /\ 0 \notin merged
       /\ \A i \in 0..(Len(updated_nodes) - 1) :
            Updated(0) \notin ChildRefs(Slot(Session, i))
       /\ last.op = "insert" =>
            <<NibbleSlice_new(last.key), FlatValue(last.value)>>
              \in Mapping(Session, Updated(0), <<>>)
       /\ last.op = "delete" =>
            /\ \A pair \in Mapping(Session, Updated(0), <<>>) :
                 pair[1] # NibbleSlice_new(last.key)
            /\ last.present => squashed # <<>> /\ squashed[Len(squashed)] = 0

\* A session of the second batch, opened on the root that the replay of the
\* first batch returned, made an operation that rewrote slot 0 and added slots.
C29_Witness ==
  /\ Idle /\ batches = 1 /\ state_root # NoNode /\ ops = 2
  /\ last.op \in {"insert", "delete"}
  /\ Len(updated_nodes) >= 2
  /\ updated_nodes[1] # from_existing_node_view(memory[state_root])

\* The slots of node_ids_with_hashes in the changes of a finalized session.
EmittedSlots ==
  {changes.mem_trie_changes.node_ids_with_hashes[i].node_id :
     i \in 1..Len(changes.mem_trie_changes.node_ids_with_hashes)}

\* The net refcount change of hash h in trie_changes.
NetRefcount(trie_changes, h) ==
  LET inserted == {c \in trie_changes.insertions : c.trie_node_or_value_hash = h}
      deleted == {c \in trie_changes.deletions : c.trie_node_or_value_hash = h}
      rc(S) == IF S = {} THEN 0 ELSE (CHOOSE c \in S : TRUE).rc
  IN  rc(inserted) - rc(deleted)

\* C30 as stated: after to_trie_changes every slot of the buffer that is not a
\* hole is in node_ids_with_hashes and the net refcount change of the hash of its
\* entry is one more than the count the session had recorded for it.
C30_EveryNonHoleSlotEmitted ==
  FinalizedWithTrieChanges =>
    \A i \in 0..(Len(updated_nodes) - 1) :
      updated_nodes[i + 1].kind # "Hole" =>
        /\ i \in EmittedSlots
        /\ \E e \in 1..Len(changes.mem_trie_changes.node_ids_with_hashes) :
             LET entry == changes.mem_trie_changes.node_ids_with_hashes[e]
             IN  /\ entry.node_id = i
                 /\ NetRefcount(changes.trie_changes.some, entry.hash)
                      > RefcountEntry(tracked_trie_changes.some.refcount_changes,
                                      entry.hash).rc

\* C30: in a finalized session every slot that holds a node other than Empty is
\* in node_ids_with_hashes, once, and no hole and no Empty slot is; with
\* tracking, the net refcount change of every hash is the count the session had
\* recorded for it plus the number of entries of node_ids_with_hashes with that
\* hash, and a hash inserted for an entry carries the serialized node.
C30_NodeSlotsPersisted ==
  (phase = "finalized" /\ panic = NoPanic) =>
    LET emitted == changes.mem_trie_changes.node_ids_with_hashes
        entries(h) == {i \in 1..Len(emitted) : emitted[i].hash = h}
        before(h) == RefcountEntry(tracked_trie_changes.some.refcount_changes, h).rc
    IN  /\ \A i \in 0..(Len(updated_nodes) - 1) :
             i \in EmittedSlots <=> updated_nodes[i + 1].kind \notin {"Hole", "Empty"}
        /\ Cardinality(EmittedSlots) = Len(emitted)
        /\ changes.trie_changes # None =>
             /\ \A h \in {emitted[i].hash : i \in 1..Len(emitted)}
                        \cup DOMAIN tracked_trie_changes.some.refcount_changes :
                  NetRefcount(changes.trie_changes.some, h)
                    = before(h) + Cardinality(entries(h))
             /\ \A c \in changes.trie_changes.some.insertions :
                  entries(c.trie_node_or_value_hash) # {} =>
                    c.trie_node_or_value = Some(c.trie_node_or_value_hash.preimage)

\* A tracking session was finalized after two operations with three nodes or
\* more in node_ids_with_hashes, one of them with a hash the session had
\* dereferenced before, while a slot of the buffer is a hole and another one,
\* not slot 0, is Empty.
C30_Witness ==
  /\ FinalizedWithTrieChanges /\ ops = 2
  /\ Len(changes.mem_trie_changes.node_ids_with_hashes) >= 3
  /\ \E i \in 1..Len(updated_nodes) : updated_nodes[i].kind = "Hole"
  /\ \E i \in 2..Len(updated_nodes) : updated_nodes[i] = Empty
  /\ \E i \in 1..Len(changes.mem_trie_changes.node_ids_with_hashes) :
       RefcountEntry(tracked_trie_changes.some.refcount_changes,
                     changes.mem_trie_changes.node_ids_with_hashes[i].hash).rc < 0

\* The slots that node refers to.
UpdatedChildren(node) == {ref.id : ref \in {r \in ChildRefs(node) : r.tag = "Updated"}}

\* The number of Updated references that node holds.
UpdatedCount(node) ==
  CASE node.kind = "Branch" ->
         Cardinality({i \in Nibbles : node.children[i].tag = "Updated"})
    [] node.kind = "Extension" -> IF node.child.tag = "Updated" THEN 1 ELSE 0
    [] OTHER -> 0

\* Following Updated references from slot id never comes back to a slot of
\* visited or to a slot passed on the way.
RECURSIVE NoRevisit(_, _, _)
NoRevisit(s, id, visited) ==
  /\ id \notin visited
  /\ \A j \in UpdatedChildren(Slot(s, id)) : NoRevisit(s, j, visited \cup {id})

\* The slots reached from slot id through Updated references, id included.
RECURSIVE UpdatedSubtree(_, _)
UpdatedSubtree(s, id) ==
  {id} \cup UNION {UpdatedSubtree(s, j) : j \in UpdatedChildren(Slot(s, id))}

\* The update buffer of s is a tree rooted at slot 0.
TreeShape(s) ==
  LET slots == 0..(Len(s.updated_nodes) - 1)
      single(reached) ==
        \A i \in reached :
          /\ UpdatedCount(Slot(s, i)) = Cardinality(UpdatedChildren(Slot(s, i)))
          /\ \A k \in reached \ {i} :
               UpdatedChildren(Slot(s, i)) \cap UpdatedChildren(Slot(s, k)) = {}
  IN  /\ \A i \in slots : UpdatedChildren(Slot(s, i)) \subseteq slots \ {0}
      /\ s.updated_nodes # <<>> =>
           /\ NoRevisit(s, 0, {})
           /\ single(UpdatedSubtree(s, 0))

\* C31: in every state the update buffer is a tree: every Updated(j) in a slot has
\* j below the number of slots, no slot holds Updated(0), following Updated
\* references from slot 0 never revisits a slot, and no slot is referred to by
\* more than one Updated reference of the slots reachable from slot 0.  An insert
\* or a delete never shortens the buffer, new slots are appended, a hole stays a
\* hole and an unreferenced Empty slot stays Empty.
C31_TreeShape ==
  [][/\ last.op = "none" => TreeShape(Session)
     /\ TreeShape(Session')
     /\ last'.op \in {"insert", "delete"} =>
          /\ Len(updated_nodes') >= Len(updated_nodes)
          /\ Holes(Session) \subseteq Holes(Session')
          /\ EmptySlots(Session) \ {0} \subseteq EmptySlots(Session')]_vars

\* Two operations of a session left a buffer of five slots or more with a hole,
\* a branch reachable from slot 0 with two Updated children, and an Updated
\* reference two levels below slot 0.
C31_Witness ==
  /\ Idle /\ ops = 2
  /\ Len(updated_nodes) >= 5
  /\ Holes(Session) # {}
  /\ \E i \in UpdatedReachable(Session) :
       /\ Slot(Session, i).kind = "Branch"
       /\ Cardinality({r \in ChildRefs(Slot(Session, i)) : r.tag = "Updated"}) >= 2
  /\ \E i \in UpdatedReachable(Session) \ {0} :
       \E r \in ChildRefs(Slot(Session, i)) : r.tag = "Updated"

\* GenericUpdatedTrieNode::memory_usage_value
memory_usage_value(value_length) == value_length * byte_of_value + node_cost

\* GenericUpdatedTrieNode::memory_usage_direct: the cost of the single node.
memory_usage_direct(node) ==
  CASE node.kind = "Empty" -> 0
    [] node.kind = "Leaf" ->
         node_cost + Len(node.extension) * byte_of_key
         + memory_usage_value(node.value.length)
    [] node.kind = "Branch" ->
         node_cost
         + (IF node.value = None THEN 0 ELSE memory_usage_value(node.value.some.length))
    [] node.kind = "Extension" -> node_cost + Len(node.extension) * byte_of_key

\* The sum of usage[ref] over the child places of node.
RECURSIVE SumOfChildren(_, _, _)
SumOfChildren(node, usage, places) ==
  IF places = {} THEN 0
  ELSE LET i == CHOOSE x \in places : TRUE
       IN  usage[node.children[i]] + SumOfChildren(node, usage, places \ {i})

\* The memory usage serialized with the entries of node_ids_with_hashes, by slot.
SerializedUsage(node_ids_with_hashes) ==
  [id \in {node_ids_with_hashes[i].node_id : i \in 1..Len(node_ids_with_hashes)} |->
     (CHOOSE e \in {node_ids_with_hashes[i] : i \in 1..Len(node_ids_with_hashes)} :
        e.node_id = id).hash.preimage.borsh.memory_usage]

\* C32: in a finalized session the memory usage serialized with every node of
\* the ordered list is the cost of the node itself (memory_usage_direct) plus the
\* memory usage of each of its children: the one stored in the arena for an Old
\* child, the one serialized with its entry for an Updated child.
C32_MemoryUsageAggregation ==
  (phase = "finalized" /\ panic = NoPanic) =>
    LET serialized == SerializedUsage(changes.mem_trie_changes.node_ids_with_hashes)
        of(node) ==
          [ref \in ChildRefs(node) |->
             IF ref.tag = "Old" THEN memory[ref.id].memory_usage ELSE serialized[ref.id]]
        children(node) ==
          CASE node.kind = "Branch" ->
                 SumOfChildren(node, of(node),
                               {i \in Nibbles : node.children[i] # NoChild})
            [] node.kind = "Extension" -> of(node)[node.child]
            [] OTHER -> 0
    IN  \A id \in DOMAIN serialized :
          serialized[id]
            = memory_usage_direct(Slot(Session, id)) + children(Slot(Session, id))

\* A session was finalized with, in the ordered list, an extension, a branch
\* with a value, and a branch with an Old child and an Updated child.
C32_Witness ==
  /\ phase = "finalized" /\ panic = NoPanic /\ ops >= 1
  /\ \E id \in EmittedSlots : Slot(Session, id).kind = "Extension"
  /\ \E id \in EmittedSlots :
       Slot(Session, id).kind = "Branch" /\ Slot(Session, id).value # None
  /\ \E id \in EmittedSlots :
       /\ Slot(Session, id).kind = "Branch"
       /\ \E a, b \in ChildRefs(Slot(Session, id)) : a.tag = "Old" /\ b.tag = "Updated"

\* The sessions of the squash pass of a delete over path, deepest slot first: the
\* session before the pass, then the session after each call of squash_node.
RECURSIVE SquashTrace(_, _)
SquashTrace(s, path) ==
  IF path = <<>> THEN <<s>>
  ELSE <<s>> \o SquashTrace(squash_node(s, path[Len(path)]), SubSeq(path, 1, Len(path) - 1))

\* The nibble path that a node carries: that of its extension for a leaf or an
\* extension, none for the others.
PathOf(node) ==
  IF node.kind \in {"Leaf", "Extension"} THEN from_encoded(node.extension).nibbles
  ELSE <<>>

\* squash_node took session s to session s1 on slot node_id and kept the pairs
\* under that slot; when it merged, the node placed carries the path described.
SquashKeepsMapping(s, node_id, s1) ==
  LET node == Slot(s, node_id)
      left == {i \in Nibbles : node.children[i] # NoChild
                                /\ NodeAt(s, node.children[i]).kind # "Empty"}
      collapsed(i) ==
        /\ PathOf(Slot(s1, node_id)) = <<i>> \o PathOf(NodeAt(s, node.children[i]))
        /\ Slot(s1, node_id).kind
             = (IF NodeAt(s, node.children[i]).kind = "Leaf" THEN "Leaf" ELSE "Extension")
  IN  /\ s1.panic = NoPanic
      /\ Mapping(s1, Updated(node_id), <<>>) = Mapping(s, Updated(node_id), <<>>)
      /\ Mapping(s1, Updated(0), <<>>) = Mapping(s, Updated(0), <<>>)
      /\ node.kind = "Extension" =>
           /\ PathOf(Slot(s1, node_id)) = PathOf(node) \o PathOf(NodeAt(s, node.child))
           /\ Slot(s1, node_id).kind
                = (IF NodeAt(s, node.child).kind = "Leaf" THEN "Leaf" ELSE "Extension")
           /\ from_encoded(Slot(s1, node_id).extension).is_leaf
                = (NodeAt(s, node.child).kind = "Leaf")
      /\ (node.kind = "Branch" /\ node.value = None /\ Cardinality(left) = 1) =>
           \A i \in left : collapsed(i)

\* C33: every call of squash_node in the squash pass of a delete, with the calls
\* of extend_child it makes, leaves the (key, value) pairs under the slot
\* squashed, and under slot 0, unchanged; squashing an extension gives a leaf or
\* an extension that carries the path of the extension followed by the path of
\* its child, and a branch left with one child and no value gives the nibble of
\* the index of that child followed by the path of the child.
C33_SquashKeepsMapping ==
  Idle =>
    \A k \in Keys :
      LET kept(trace, path) ==
            \A i \in 1..Len(path) :
              SquashKeepsMapping(trace[i], path[Len(path) + 1 - i], trace[i + 1])
          pass(r) == r.found => kept(SquashTrace(r.s, r.path), r.path)
      IN  pass(Descent(Session, k))

\* A delete removed a key; its squash pass ran on three slots or more, merged two
\* child slots, and left a leaf in slot 0 whose path has three nibbles or more.
C33_Witness ==
  /\ DeletedKey /\ Len(squashed) >= 3
  /\ Cardinality(merged) >= 2
  /\ updated_nodes[1].kind = "Leaf"
  /\ Len(PathOf(updated_nodes[1])) >= 3

\* The children that the branch in slot node_id of session s keeps when
\* squash_node has removed those that are Empty.
RemainingChildren(s, node_id) ==
  {i \in Nibbles : /\ Slot(s, node_id).children[i] # NoChild
                   /\ NodeAt(s, Slot(s, node_id).children[i]).kind # "Empty"}

\* squash_node on slot node_id of session s finds a branch without value whose
\* single remaining child is an Old reference.
CollapsesOntoOld(s, node_id) ==
  /\ Slot(s, node_id).kind = "Branch"
  /\ Slot(s, node_id).value = None
  /\ Cardinality(RemainingChildren(s, node_id)) = 1
  /\ \A i \in RemainingChildren(s, node_id) : Slot(s, node_id).children[i].tag = "Old"

\* squash_node took session s to s1 on such a slot: the child was converted into
\* the next slot of the buffer, with its refcount and its access recorded, and
\* then merged.
CollapsedOntoOld(s, node_id, s1) ==
  LET i == CHOOSE x \in RemainingChildren(s, node_id) : TRUE
      ref == Slot(s, node_id).children[i]
      child == from_existing_node_view(s.memory[ref.id])
      node_hash == s.memory[ref.id].node_hash
      new == Len(s.updated_nodes)
      placed == Slot(s1, node_id)
  IN  /\ s1.panic = NoPanic
      /\ Len(s1.updated_nodes) = new + 1
      /\ IF s.tracked_trie_changes = None
           THEN s1.tracked_trie_changes = None
           ELSE /\ RefcountEntry(s1.tracked_trie_changes.some.refcount_changes, node_hash).rc
                     = RefcountEntry(s.tracked_trie_changes.some.refcount_changes,
                                     node_hash).rc - 1
                /\ node_hash \in DOMAIN s1.tracked_trie_changes.some.accesses.nodes
                /\ hash(s1.tracked_trie_changes.some.accesses.nodes[node_hash]) = node_hash
                /\ node_hash \in s1.subtracted
      /\ child.kind = "Leaf" =>
           /\ Slot(s1, new) = Hole /\ new \in s1.merged
           /\ placed = Leaf(encoded(<<i>> \o PathOf(child), TRUE), child.value)
      /\ child.kind = "Extension" =>
           /\ Slot(s1, new) = Hole /\ new \in s1.merged
           /\ placed = Extension(encoded(<<i>> \o PathOf(child), FALSE), child.child)
      /\ child.kind = "Branch" =>
           /\ Slot(s1, new) = child /\ new \notin s1.merged
           /\ placed = Extension(encoded(<<i>>, FALSE), Updated(new))
      /\ placed.kind = "Extension" => NodeAt(s1, placed.child).kind = "Branch"
      /\ \A r \in ChildRefs(placed) :
           r.tag = "Old" => s.memory[r.id].kind \notin {"Leaf", "Extension"}

\* C34: in the squash pass of a delete, when squash_node finds a branch without
\* value whose single remaining child is an Old reference, the child is first
\* converted into a new slot of the buffer (-1 for its hash and its bytes in
\* accesses.nodes when the session tracks changes) and then merged: a leaf or an
\* extension child leaves its new slot a hole and the merged node in the slot of
\* the branch, a branch child stays in its new slot under an extension; the node
\* placed never holds an Old reference to a leaf or an extension.
C34_CollapseOntoOldChild ==
  Idle =>
    \A k \in Keys :
      LET collapsed(trace, path) ==
            \A i \in 1..Len(path) :
              CollapsesOntoOld(trace[i], path[Len(path) + 1 - i]) =>
                CollapsedOntoOld(trace[i], path[Len(path) + 1 - i], trace[i + 1])
          pass(r) == r.found => collapsed(SquashTrace(r.s, r.path), r.path)
      IN  pass(Descent(Session, k))

\* The first operation of a tracking session was a delete that found its key;
\* every slot of its descent was converted on the way down, and the squash pass
\* converted one more node, an untouched child, and merged it: its slot is a
\* hole and its hash is in accesses.nodes.
C34_Witness ==
  /\ DeletedKey /\ ops = 1 /\ tracked_trie_changes # None
  /\ Len(updated_nodes) = Len(squashed) + 1
  /\ Slot(Session, Len(updated_nodes) - 1) = Hole
  /\ Len(updated_nodes) - 1 \in merged
  /\ Cardinality(DOMAIN tracked_trie_changes.some.accesses.nodes) = Len(updated_nodes)

\* The same when the untouched child is a branch: it stays in its new slot,
\* under an extension.
C34_WitnessBranchChild ==
  /\ DeletedKey /\ ops = 1 /\ tracked_trie_changes # None
  /\ Len(updated_nodes) = Len(squashed) + 1
  /\ Slot(Session, Len(updated_nodes) - 1).kind = "Branch"
  /\ \E i \in 0..(Len(updated_nodes) - 2) :
       /\ Slot(Session, i).kind = "Extension"
       /\ Slot(Session, i).child = Updated(Len(updated_nodes) - 1)

\* squash_node on slot node_id of session s takes the arm that replaces a branch
\* without children and without value by Empty.
BranchBecomesEmpty(s, node_id) ==
  /\ Slot(s, node_id).kind = "Branch"
  /\ Slot(s, node_id).value = None
  /\ RemainingChildren(s, node_id) = {}

\* squash_node on slot node_id of session s calls extend_child on a child that is
\* Empty.
ExtendFindsEmpty(s, node_id) ==
  \/ /\ Slot(s, node_id).kind = "Extension"
     /\ NodeAt(s, Slot(s, node_id).child).kind = "Empty"
  \/ /\ Slot(s, node_id).kind = "Branch"
     /\ Slot(s, node_id).value = None
     /\ \E i \in Nibbles :
          /\ Slot(s, node_id).children[i].tag = "Old"
          /\ s.memory[Slot(s, node_id).children[i].id].kind = "Empty"

\* C35: in the squash pass of a delete on a canonical trie, squash_node replaces
\* a branch by Empty or extend_child finds its child Empty at most on the direct
\* parent of the slot whose leaf the descent replaced by Empty; the only slot that
\* becomes Empty is the slot of that leaf; and slot 0 is Empty after the delete
\* only when it held the leaf of the only key of the trie.
C35_EmptyOnlyFromDeletedLeaf ==
  (Idle /\ CanonicalTrie(Session)) =>
    \A k \in Keys :
      LET deepest(r) == r.path[Len(r.path)]
          arms(r, trace) ==
            \A i \in 1..Len(r.path) :
              (\/ BranchBecomesEmpty(trace[i], r.path[Len(r.path) + 1 - i])
               \/ ExtendFindsEmpty(trace[i], r.path[Len(r.path) + 1 - i]))
                => (i = 2 /\ Slot(r.s, deepest(r)) = Empty)
          found_in(steps) == steps[Len(steps)]
          held_leaf(step, j) == step.slot = j /\ step.kind = "Leaf" /\ step.done
          after(r, s1) ==
            /\ EmptySlots(s1) \ EmptySlots(Session) \subseteq {deepest(r)}
            /\ \A j \in EmptySlots(s1) \ EmptySlots(Session) :
                 /\ Slot(r.s, j) = Empty
                 /\ held_leaf(found_in(DeleteSteps(Session, 0, NibbleSlice_new(k),
                                                   Len(NibbleSlice_new(k)) + 2)), j)
            /\ Slot(s1, 0) = Empty =>
                 /\ r.path = <<0>>
                 /\ Slot(Session, 0).kind = "Leaf"
                 /\ Mapping(Session, Updated(0), <<>>)
                      = {<<NibbleSlice_new(k), Slot(Session, 0).value>>}
          squashed_in(r, trace) == arms(r, trace) /\ after(r, trace[Len(trace)])
          pass(r) == r.found => squashed_in(r, SquashTrace(r.s, r.path))
      IN  pass(Descent(Session, k))

\* A delete removed the only key of a trie loaded from the arena: slot 0 held its
\* leaf and is now Empty.
C35_Witness ==
  /\ DeletedKey /\ state_root # NoNode
  /\ squashed = <<0>>
  /\ updated_nodes = <<Empty>>
  /\ TruthMapping = {}

\* A delete removed a leaf two slots or more below slot 0: its slot is Empty, no
\* slot refers to it, and slot 0 is not Empty.
C35_WitnessBelowRoot ==
  /\ DeletedKey /\ Len(squashed) >= 3
  /\ Slot(Session, squashed[1]) = Empty
  /\ updated_nodes[1] # Empty
  /\ \A i \in 0..(Len(updated_nodes) - 1) :
       Updated(squashed[1]) \notin ChildRefs(Slot(Session, i))

\* The slots of session s that following Updated references from slot 0 does
\* not reach.
OrphanSlots(s) ==
  IF s.updated_nodes = <<>> THEN {}
  ELSE (0..(Len(s.updated_nodes) - 1)) \ UpdatedSubtree(s, 0)

\* C36: between operations, and so when the session is finalized, every slot of
\* the buffer that is not reachable from slot 0 is a hole or holds Empty: no
\* Leaf, Extension or Branch is left unreachable.  In a finalized session every
\* slot that holds a Leaf, an Extension or a Branch is in node_ids_with_hashes,
\* so the node of every converted slot that is still held is added again.
C36_OrphansAreInert ==
  /\ (Idle \/ (phase = "finalized" /\ panic = NoPanic)) =>
       \A i \in OrphanSlots(Session) : Slot(Session, i).kind \in {"Hole", "Empty"}
  /\ (phase = "finalized" /\ panic = NoPanic) =>
       \A i \in 0..(Len(updated_nodes) - 1) :
         Slot(Session, i).kind \in {"Leaf", "Extension", "Branch"} =>
           /\ i \in UpdatedSubtree(Session, 0)
           /\ i \in EmittedSlots

\* A session was finalized by to_mem_trie_changes_only after two operations with
\* two orphan slots or more, a hole and an Empty one among them, beside three
\* slots or more that are reachable from slot 0.
C36_Witness ==
  /\ phase = "finalized" /\ panic = NoPanic /\ ops = 2
  /\ last.op = "to_mem_trie_changes_only"
  /\ \E i, j \in OrphanSlots(Session) : Slot(Session, i) = Hole /\ Slot(Session, j) = Empty
  /\ Cardinality(UpdatedSubtree(Session, 0)) >= 3

\* C37: to_trie_changes on a session created without tracking aborts and returns
\* no changes, and on a tracking session it returns them; insert_memtrie_only on
\* a tracking session aborts when it writes the value, for want of the raw
\* bytes, while insert, which supplies them, completes; without tracking insert,
\* insert_memtrie_only and delete complete, insert_memtrie_only leaves the buffer
\* that insert leaves, and none records a refcount change or an access.
C37_TrackingPreconditions ==
  [][/\ last'.op = "to_trie_changes" =>
          IF tracked_trie_changes = None
            THEN /\ panic' = "Cannot to_trie_changes for memtrie changes only"
                 /\ changes'.trie_changes = None
                 /\ changes'.mem_trie_changes = None
                 /\ changes'.accesses = None
            ELSE /\ panic' = NoPanic
                 /\ changes'.trie_changes # None
                 /\ changes'.mem_trie_changes # None
     /\ last'.op = "insert_memtrie_only" =>
          IF tracked_trie_changes # None
            THEN panic' = "called Option::unwrap() on a None value"
            ELSE /\ panic' = NoPanic
                 /\ updated_nodes'
                      = insert(Session, last'.key, ValueBytes(last'.value)).updated_nodes
     /\ last'.op \in {"insert", "delete"} => panic' = NoPanic
     /\ (last'.op \in {"insert", "insert_memtrie_only", "delete"}
         /\ tracked_trie_changes = None) =>
          /\ tracked_trie_changes' = None
          /\ subtracted' = {}]_vars

\* insert_memtrie_only was called on a tracking session opened on a loaded trie,
\* for a key that the trie holds, and aborted.
C37_Witness ==
  /\ phase = "open" /\ last.op = "insert_memtrie_only" /\ last.present
  /\ tracked_trie_changes # None /\ state_root # NoNode
  /\ panic = "called Option::unwrap() on a None value"

\* to_trie_changes was called on a session without tracking after an
\* insert_memtrie_only and a delete that completed, and aborted.
C37_WitnessNoTracking ==
  /\ phase = "finalized" /\ last.op = "to_trie_changes" /\ ops = 2
  /\ tracked_trie_changes = None
  /\ panic = "Cannot to_trie_changes for memtrie changes only"
  /\ changes.trie_changes = None

\* insert_memtrie_only completed on a session without tracking and rewrote a
\* value of the loaded trie.
C37_WitnessMemtrieOnly ==
  /\ Idle /\ last.op = "insert_memtrie_only" /\ last.present
  /\ tracked_trie_changes = None /\ state_root # NoNode
  /\ Len(updated_nodes) >= 2

(***************************************************************************)
(* The generic layer: GenericTrieUpdate and its two implementations, and   *)
(* squash_node and extend_child as they are written over it, with the      *)
(* memory usage they carry.  T names the implementation: "MemTrieUpdate"   *)
(* (the session record used above) or "NodesStorage".                      *)
(*                                                                         *)
(* A NodesStorage is the record [nodes, trie, panic]: nodes[i + 1] is the  *)
(* TrieNodeWithSize of handle i, or Hole, and trie[h] is the node that the *)
(* trie of the storage holds under hash h.  A TrieNode is written with     *)
(* its variant and positional fields, a NodeHandle is Hash(h) or           *)
(* InMemory(StorageHandle(i)), Children wraps the array of child handles,  *)
(* and the extension of a TrieNode is a Vec<u8>.                           *)
(***************************************************************************)
Vec(bytes) == [vec |-> bytes]

NodeHandle_Hash(h) == [handle |-> "Hash", hash |-> h]
StorageHandle(i) == [storage_handle |-> i]
NodeHandle_InMemory(h) == [handle |-> "InMemory", in_memory |-> h]
NoHandle == [handle |-> "None"]

Children(array) == [children_0 |-> array]

TrieNode_Empty == [variant |-> "Empty"]
TrieNode_Leaf(extension, value) == [variant |-> "Leaf", f0 |-> extension, f1 |-> value]
TrieNode_Branch(children, value) == [variant |-> "Branch", f0 |-> children, f1 |-> value]
TrieNode_Extension(extension, child) ==
  [variant |-> "Extension", f0 |-> extension, f1 |-> child]

TrieNodeWithSize(node, memory_usage) == [node |-> node, memory_usage |-> memory_usage]

\* match id { NodeHandle::Hash(id) => Old(id), NodeHandle::InMemory(id) => Updated(id.0) }
FromNodeHandle(id) ==
  CASE id.handle = "Hash" -> Old(id.hash)
    [] id.handle = "InMemory" -> Updated(id.in_memory.storage_handle)
    [] OTHER -> NoChild

\* match id { Old(id) => NodeHandle::Hash(id), Updated(id) => InMemory(StorageHandle(id)) }
IntoNodeHandle(id) ==
  CASE id.tag = "Old" -> NodeHandle_Hash(id.id)
    [] id.tag = "Updated" -> NodeHandle_InMemory(StorageHandle(id.id))
    [] OTHER -> NoHandle

\* UpdatedTrieStorageNode::from_trie_node_with_size
from_trie_node_with_size(node) ==
  CASE node.node.variant = "Empty" -> Empty
    [] node.node.variant = "Leaf" -> Leaf(node.node.f0.vec, node.node.f1)
    [] node.node.variant = "Branch" ->
         Branch([i \in Nibbles |-> FromNodeHandle(node.node.f0.children_0[i])],
                node.node.f1)
    [] node.node.variant = "Extension" ->
         Extension(node.node.f0.vec, FromNodeHandle(node.node.f1))

\* A variant that turns every child into a Hash handle.
into_trie_node_with_size_HashHandles(self, memory_usage) ==
  CASE self.kind = "Empty" -> TrieNodeWithSize(TrieNode_Empty, memory_usage)
    [] self.kind = "Leaf" ->
         TrieNodeWithSize(TrieNode_Leaf(Vec(self.extension), self.value), memory_usage)
    [] self.kind = "Branch" ->
         TrieNodeWithSize(
           TrieNode_Branch(
             Children([i \in Nibbles |->
                         IF self.children[i] = NoChild THEN NoHandle
                         ELSE NodeHandle_Hash(self.children[i].id)]),
             self.value),
           memory_usage)
    [] self.kind = "Extension" ->
         TrieNodeWithSize(
           TrieNode_Extension(Vec(self.extension), NodeHandle_Hash(self.child.id)),
           memory_usage)

\* UpdatedTrieStorageNode::into_trie_node_with_size
into_trie_node_with_size(self, memory_usage) ==
  CASE self.kind = "Empty" -> TrieNodeWithSize(TrieNode_Empty, memory_usage)
    [] self.kind = "Leaf" ->
         TrieNodeWithSize(TrieNode_Leaf(Vec(self.extension), self.value), memory_usage)
    [] self.kind = "Branch" ->
         TrieNodeWithSize(
           TrieNode_Branch(Children([i \in Nibbles |-> IntoNodeHandle(self.children[i])]),
                           self.value),
           memory_usage)
    [] self.kind = "Extension" ->
         TrieNodeWithSize(
           TrieNode_Extension(Vec(self.extension), IntoNodeHandle(self.child)),
           memory_usage)

\* GenericUpdatedTrieNodeWithSize { node, memory_usage }
WithSize(node, memory_usage) == [node |-> node, memory_usage |-> memory_usage]

\* GenericUpdatedTrieNodeWithSize::empty
WithSize_empty == WithSize(Empty, 0)

\* u64::saturating_sub
saturating_sub(a, b) == IF a > b THEN a - b ELSE 0

\* NodesStorage::destroy, by the contract of generic_take_node: the node leaves
\* its slot, and a handle whose slot holds no node aborts.
NodesStorage_destroy(s, index) ==
  IF s.panic # NoPanic THEN s
  ELSE IF index >= Len(s.nodes) \/ s.nodes[index + 1] = Hole
    THEN Abort(s, "invalid storage handle")
  ELSE [s EXCEPT !.nodes[index + 1] = Hole]

\* NodesStorage::store_at, by the contract of generic_place_node: the node is put
\* to the slot of the handle.
NodesStorage_store_at(s, index, node) ==
  IF s.panic # NoPanic THEN s
  ELSE IF index >= Len(s.nodes) THEN Abort(s, "invalid storage handle")
  ELSE [s EXCEPT !.nodes[index + 1] = node]

\* Trie::move_node_to_mutable when it succeeds, by the contract of
\* generic_ensure_updated: the node stored under the hash becomes an updated node
\* with a new handle, Len(nodes).
move_node_to_mutable(s, node_hash) ==
  IF s.panic # NoPanic THEN s
  ELSE [s EXCEPT !.nodes = Append(@, s.trie[node_hash])]

(***************************************************************************)
(* A run of the generic code is the record                                 *)
(*   impl    the implementation of GenericTrieUpdate it runs over          *)
(*   s       the MemTrieUpdate session or the NodesStorage                 *)
(*   fail    whether Trie::move_node_to_mutable answers with StorageError  *)
(*   err     whether a StorageError has been returned                      *)
(*   placed  history: the slot and memory_usage of every call of           *)
(*           generic_place_node                                            *)
(***************************************************************************)
GenericRun(impl, s, fail) ==
  [impl |-> impl, s |-> s, fail |-> fail, err |-> FALSE, placed |-> <<>>]

\* generic_get_node of both implementations; of an emptied slot the node is Hole.
generic_get_node(G, index) ==
  IF G.impl = "MemTrieUpdate"
    THEN WithSize(Slot(G.s, index), 0)
    ELSE LET node == G.s.nodes[index + 1]
         IN  IF node = Hole THEN WithSize(Hole, 0)
             ELSE WithSize(from_trie_node_with_size(node), node.memory_usage)

\* generic_take_node of both implementations: the run after the call; the node
\* it returns is generic_get_node before the call.
generic_take_node(G, index) ==
  IF G.impl = "MemTrieUpdate"
    THEN [G EXCEPT !.s = take_node(@, index)]
    ELSE [G EXCEPT !.s = NodesStorage_destroy(@, index)]

\* A variant in which MemTrieUpdate keeps the memory usage it is given with the
\* node.
generic_place_node_KeepsUsage(G, index, node) ==
  IF G.impl = "MemTrieUpdate"
    THEN [G EXCEPT !.s = place_node(@, index,
                                    node.node @@ [memory_usage |-> node.memory_usage]),
                   !.placed = Append(@, [index |-> index,
                                         memory_usage |-> node.memory_usage])]
    ELSE [G EXCEPT !.s = NodesStorage_store_at(@, index,
                           into_trie_node_with_size(node.node, node.memory_usage)),
                   !.placed = Append(@, [index |-> index,
                                         memory_usage |-> node.memory_usage])]

\* generic_place_node of both implementations
generic_place_node(G, index, node) ==
  IF G.impl = "MemTrieUpdate"
    THEN [G EXCEPT !.s = place_node(@, index, node.node),
                   !.placed = Append(@, [index |-> index,
                                         memory_usage |-> node.memory_usage])]
    ELSE [G EXCEPT !.s = NodesStorage_store_at(@, index,
                           into_trie_node_with_size(node.node, node.memory_usage)),
                   !.placed = Append(@, [index |-> index,
                                         memory_usage |-> node.memory_usage])]

\* generic_ensure_updated of both implementations: the run after the call; the id
\* it returns is GenericEnsuredId.  Only NodesStorage can return an error, and
\* only for an Old node.
generic_ensure_updated(G, node) ==
  IF G.impl = "MemTrieUpdate"
    THEN [G EXCEPT !.s = ensure_updated(@, node)]
  ELSE IF node.tag = "Old"
    THEN IF G.fail \/ node.id \notin DOMAIN G.s.trie
           THEN [G EXCEPT !.err = TRUE]
           ELSE [G EXCEPT !.s = move_node_to_mutable(@, node.id)]
  ELSE G

GenericEnsuredId(G, node) ==
  IF G.impl = "MemTrieUpdate" THEN EnsuredId(G.s, node)
  ELSE IF node.tag = "Old" THEN Len(G.s.nodes)
  ELSE node.id

\* GenericTrieUpdateSquash::extend_child over GenericTrieUpdate
GenericTrieUpdateSquash_extend_child(G, node_id, extension, child_id) ==
  LET arm(node, memory_usage, child, G2) ==
        CASE node.kind = "Empty" -> generic_place_node(G2, node_id, WithSize_empty)
          [] node.kind = "Leaf" ->
               LET leaf == Leaf(merge_encoded(from_encoded(extension).nibbles,
                                              from_encoded(node.extension).nibbles, TRUE),
                                node.value)
               IN  generic_place_node(G2, node_id,
                                      WithSize(leaf, memory_usage_direct(leaf)))
          [] node.kind = "Branch" ->
               LET ext == Extension(extension, Updated(child))
               IN  generic_place_node(
                     generic_place_node(G2, child, WithSize(node, memory_usage)),
                     node_id,
                     WithSize(ext, memory_usage + memory_usage_direct(ext)))
          [] node.kind = "Extension" ->
               LET ext == Extension(merge_encoded(from_encoded(extension).nibbles,
                                                  from_encoded(node.extension).nibbles,
                                                  FALSE),
                                    node.child)
               IN  generic_place_node(G2, node_id,
                     WithSize(ext,
                              memory_usage_direct(ext)
                              + saturating_sub(memory_usage, memory_usage_direct(node))))
          [] OTHER -> G2
      take(taken, child, G1) ==
        arm(taken.node, taken.memory_usage, child, generic_take_node(G1, child))
      ensured(G1, child) ==
        IF G1.err \/ G1.s.panic # NoPanic THEN G1
        ELSE take(generic_get_node(G1, child), child, G1)
  IN  IF G.err \/ G.s.panic # NoPanic THEN G
      ELSE ensured(generic_ensure_updated(G, child_id), GenericEnsuredId(G, child_id))

\* The children of a branch after squash_node removed those that are now Empty.
GenericRemoveEmptyChildren(G, children) ==
  [i \in Nibbles |->
     IF children[i].tag = "Updated" /\ generic_get_node(G, children[i].id).node.kind = "Empty"
       THEN NoChild ELSE children[i]]

\* GenericUpdatedTrieNode::Branch { mut children, value } => ... of squash_node
GenericSquashBranch(G, node, memory_usage, node_id) ==
  LET rest(children, present) ==
        IF Cardinality(present) = 0
          THEN IF node.value = None
                 THEN generic_place_node(G, node_id, WithSize_empty)
                 ELSE LET leaf_node == Leaf(encoded(<<>>, TRUE), node.value.some)
                      IN  generic_place_node(G, node_id,
                            WithSize(leaf_node, memory_usage_direct(leaf_node)))
        ELSE IF Cardinality(present) = 1 /\ node.value = None
          THEN LET idx == CHOOSE i \in present : TRUE
               IN  GenericTrieUpdateSquash_extend_child(G, node_id,
                     encoded_leftmost(NibbleSlice_new(<<(idx * 16) % 256>>), 1, FALSE),
                     children[idx])
        ELSE generic_place_node(G, node_id,
                                WithSize(Branch(children, node.value), memory_usage))
      kept(children) == rest(children, {i \in Nibbles : children[i].tag # "None"})
  IN  IF \E i \in Nibbles :
           /\ node.children[i].tag = "Updated"
           /\ generic_get_node(G, node.children[i].id).node.kind = "Hole"
        THEN [G EXCEPT !.s = Abort(@, "called Option::unwrap() on a None value")]
        ELSE kept(GenericRemoveEmptyChildren(G, node.children))

\* A variant that places the node it took back when extend_child returns an error.
GenericTrieUpdateSquash_squash_node_RestoresOnError(G, node_id) ==
  LET restore(taken, G2) ==
        IF G2.err THEN generic_place_node(G2, node_id, taken) ELSE G2
      arm(taken, G1) ==
        CASE taken.node.kind = "Empty" -> generic_place_node(G1, node_id, WithSize_empty)
          [] taken.node.kind = "Leaf" ->
               [G1 EXCEPT !.s = Abort(@, "internal error: entered unreachable code")]
          [] taken.node.kind = "Branch" ->
               restore(taken, GenericSquashBranch(G1, taken.node, taken.memory_usage, node_id))
          [] taken.node.kind = "Extension" ->
               restore(taken,
                       GenericTrieUpdateSquash_extend_child(G1, node_id, taken.node.extension,
                                                            taken.node.child))
          [] OTHER -> G1
  IN  IF G.err \/ G.s.panic # NoPanic THEN G
      ELSE arm(generic_get_node(G, node_id), generic_take_node(G, node_id))

\* GenericTrieUpdateSquash::squash_node over GenericTrieUpdate
GenericTrieUpdateSquash_squash_node(G, node_id) ==
  LET arm(taken, G1) ==
        CASE taken.node.kind = "Empty" -> generic_place_node(G1, node_id, WithSize_empty)
          [] taken.node.kind = "Leaf" ->
               [G1 EXCEPT !.s = Abort(@, "internal error: entered unreachable code")]
          [] taken.node.kind = "Branch" ->
               GenericSquashBranch(G1, taken.node, taken.memory_usage, node_id)
          [] taken.node.kind = "Extension" ->
               GenericTrieUpdateSquash_extend_child(G1, node_id, taken.node.extension,
                                                    taken.node.child)
          [] OTHER -> G1
  IN  IF G.err \/ G.s.panic # NoPanic THEN G
      ELSE arm(generic_get_node(G, node_id), generic_take_node(G, node_id))

\* for node_id in path.into_iter().rev() { self.squash_node(node_id).unwrap(); }
\* through the generic code.
RECURSIVE GenericSquashPath(_, _)
GenericSquashPath(G, path) ==
  IF path = <<>> THEN G
  ELSE GenericSquashPath(GenericTrieUpdateSquash_squash_node(G, path[Len(path)]),
                         SubSeq(path, 1, Len(path) - 1))

\* What a MemTrieUpdate holds, without the histories.
SessionState(s) ==
  [root |-> s.root, memory |-> s.memory, updated_nodes |-> s.updated_nodes,
   tracked_trie_changes |-> s.tracked_trie_changes, panic |-> s.panic]

\* The squash pass of a delete, run through generic_take_node, generic_get_node,
\* generic_place_node and generic_ensure_updated of MemTrieUpdate with the memory
\* usage squash_node and extend_child compute, ends in run G; the pass of delete
\* ends in session s1.  No error is returned, every node is read with memory
\* usage 0, and the session is the same.
UsageIgnored(G, s1) ==
  /\ ~G.err
  /\ SessionState(G.s) = SessionState(s1)
  /\ \A i \in 0..(Len(G.s.updated_nodes) - 1) : generic_get_node(G, i).memory_usage = 0

\* C39: the memory usage that squash_node and extend_child compute does not reach
\* the session: for every key a delete can remove, the squash pass run through the
\* generic methods of MemTrieUpdate, which report memory usage 0 and drop the
\* memory usage they are given, leaves the update buffer, the arena, the tracker
\* and the panic state that the pass of delete leaves, and so the same hashes and
\* serialized memory usage at finalization.
C39_ZeroedUsageIsHarmless ==
  Idle =>
    \A k \in Keys :
      LET pass(r) ==
            r.found =>
              UsageIgnored(GenericSquashPath(GenericRun("MemTrieUpdate", r.s, FALSE), r.path),
                           SquashPath(r.s, r.path))
      IN  pass(Descent(Session, k))

\* A key can be deleted whose squash pass hands generic_place_node, for a slot that
\* finalization serializes, a memory usage other than the one serialized for it.
C39_Witness ==
  /\ Idle
  /\ \E k \in Keys :
       LET wrong(G, serialized) ==
             \E i \in 1..Len(G.placed) :
               /\ G.placed[i].index \in DOMAIN serialized
               /\ G.placed[i].memory_usage > 0
               /\ G.placed[i].memory_usage # serialized[G.placed[i].index]
           ran(G) ==
             /\ G.s.panic = NoPanic
             /\ wrong(G, SerializedUsage(
                           to_mem_trie_changes_internal(G.s).mem_trie_changes.node_ids_with_hashes))
           pass(r) ==
             /\ r.found
             /\ ran(GenericSquashPath(GenericRun("MemTrieUpdate", r.s, FALSE), r.path))
       IN  pass(Descent(Session, k))

(***************************************************************************)
(* squash_node over NodesStorage.  The storage starts with three updated   *)
(* nodes that form a tree below handle 0, over a trie that holds a leaf, a *)
(* branch and an extension; the nodes are squashed, taken and placed back, *)
(* and old nodes are made updated, in any order.  The variables of the     *)
(* session carry the storage: updated_nodes its nodes, memory its trie.    *)
(***************************************************************************)
MaxStorageOps == 2

\* The handles of the updated nodes a storage starts with.
StorageHandles == 0..2

LeafHash == hash("leaf")
BranchHash == hash("branch")
ExtensionHash == hash("extension")

StorageLeaf == TrieNode_Leaf(Vec(encoded(<<3>>, TRUE)), FlatValue(1))

StorageTrie ==
  LET leaf == memory_usage_direct(from_trie_node_with_size(TrieNodeWithSize(StorageLeaf, 0)))
      branch == TrieNode_Branch(
                  Children([i \in Nibbles |->
                              IF i < 2 THEN NodeHandle_Hash(LeafHash) ELSE NoHandle]),
                  None)
      extension == TrieNode_Extension(Vec(encoded(<<4>>, FALSE)), NodeHandle_Hash(BranchHash))
  IN  (LeafHash :> TrieNodeWithSize(StorageLeaf, leaf))
      @@ (BranchHash :> TrieNodeWithSize(branch, node_cost + 2 * leaf))
      @@ (ExtensionHash :>
            TrieNodeWithSize(extension, node_cost + byte_of_key + node_cost + 2 * leaf))

\* The nodes handle i can hold at the start: its children are nodes of the trie
\* or updated nodes with a greater handle.
StorageNodes(i) ==
  LET updated == {NodeHandle_InMemory(StorageHandle(j)) : j \in {h \in StorageHandles : h > i}}
      below == {NodeHandle_Hash(LeafHash), NodeHandle_Hash(BranchHash)} \cup updated
  IN  {TrieNode_Empty, StorageLeaf}
      \cup {TrieNode_Extension(Vec(encoded(<<2>>, FALSE)), child) :
              child \in below \cup {NodeHandle_Hash(ExtensionHash)}}
      \cup {TrieNode_Branch(
              Children([n \in Nibbles |->
                          IF n = 0 THEN c0 ELSE IF n = 1 THEN c1 ELSE NoHandle]),
              value) :
              c0 \in below \cup {NoHandle}, c1 \in below \cup {NoHandle},
              value \in {None, Some(FlatValue(1))}}

\* The handles held by TrieNode node.
HandlesOf(node) ==
  CASE node.variant = "Branch" -> {<<n, node.f0.children_0[n]>> : n \in Nibbles}
    [] node.variant = "Extension" -> {<<0, node.f1>>}
    [] OTHER -> {}

\* Every handle but 0 is held by one node, at one place.
StorageTree(nodes) ==
  \A j \in StorageHandles \ {0} :
    Cardinality({<<i, place>> \in (0..(j - 1)) \X Nibbles :
                   <<place, NodeHandle_InMemory(StorageHandle(j))>>
                     \in HandlesOf(nodes[i + 1])}) = 1

\* The memory usage of the subtree of handle i: the cost of the node and the
\* memory usage of its children.
RECURSIVE StorageUsage(_, _)
StorageUsage(nodes, i) ==
  LET of(handle) ==
        CASE handle.handle = "Hash" -> StorageTrie[handle.hash].memory_usage
          [] handle.handle = "InMemory" -> StorageUsage(nodes, handle.in_memory.storage_handle)
          [] OTHER -> 0
      node == nodes[i + 1]
  IN  memory_usage_direct(from_trie_node_with_size(TrieNodeWithSize(node, 0)))
      + (CASE node.variant = "Branch" -> of(node.f0.children_0[0]) + of(node.f0.children_0[1])
           [] node.variant = "Extension" -> of(node.f1)
           [] OTHER -> 0)

StorageSession == [nodes |-> updated_nodes, trie |-> memory, panic |-> panic]

StorageBecomes(G, op, node_id) ==
  /\ updated_nodes' = G.s.nodes
  /\ memory' = G.s.trie
  /\ panic' = G.s.panic
  /\ last' = [op |-> op, node_id |-> node_id, err |-> G.err, placed |-> G.placed]
  /\ ops' = ops + 1
  /\ UNCHANGED <<root, tracked_trie_changes, subtracted, squashed, merged, phase, changes,
                 state_root, truth, batches>>

StorageInit ==
  \E n0 \in StorageNodes(0), n1 \in StorageNodes(1), n2 \in StorageNodes(2) :
    /\ StorageTree(<<n0, n1, n2>>)
    /\ updated_nodes =
         [i \in 1..Cardinality(StorageHandles) |->
            TrieNodeWithSize(<<n0, n1, n2>>[i], StorageUsage(<<n0, n1, n2>>, i - 1))]
    /\ memory = StorageTrie
    /\ panic = NoPanic
    /\ last = [op |-> "none", node_id |-> 0, err |-> FALSE, placed |-> <<>>]
    /\ ops = 0
    /\ phase = "storage"
    /\ root = NoNode
    /\ tracked_trie_changes = None
    /\ subtracted = {}
    /\ squashed = <<>>
    /\ merged = {}
    /\ changes = NoChanges
    /\ state_root = NoNode
    /\ truth = [k \in Keys |-> 0]
    /\ batches = 0

\* storage.squash_node(node_id); fail tells whether the trie answers
\* move_node_to_mutable with a StorageError.
StorageSquashNode(node_id, fail) ==
  /\ phase = "storage" /\ panic = NoPanic /\ ops < MaxStorageOps
  /\ node_id < Len(updated_nodes)
  /\ StorageBecomes(
       GenericTrieUpdateSquash_squash_node(GenericRun("NodesStorage", StorageSession, fail),
                                           node_id),
       "squash_node", node_id)

\* let node = storage.generic_take_node(index); storage.generic_place_node(index, node)
StorageTakeAndPlace(index) ==
  /\ phase = "storage" /\ panic = NoPanic /\ ops < MaxStorageOps
  /\ index < Len(updated_nodes)
  /\ LET put(G, node) == generic_place_node(generic_take_node(G, index), index, node)
         run(G) == put(G, generic_get_node(G, index))
     IN  StorageBecomes(run(GenericRun("NodesStorage", StorageSession, FALSE)),
                        "take_and_place", index)

\* storage.generic_ensure_updated(GenericNodeOrIndex::Old(node_hash))
StorageEnsureUpdated(node_hash, fail) ==
  /\ phase = "storage" /\ panic = NoPanic /\ ops < MaxStorageOps
  /\ LET run(G) == generic_ensure_updated(G, Old(node_hash))
     IN  StorageBecomes(run(GenericRun("NodesStorage", StorageSession, fail)),
                        "ensure_updated", Len(updated_nodes))

StorageNext ==
  \/ \E node_id \in 0..(Cardinality(StorageHandles) + MaxStorageOps), fail \in BOOLEAN :
       StorageSquashNode(node_id, fail)
  \/ \E index \in 0..(Cardinality(StorageHandles) + MaxStorageOps) : StorageTakeAndPlace(index)
  \/ \E node_hash \in DOMAIN StorageTrie, fail \in BOOLEAN :
       StorageEnsureUpdated(node_hash, fail)

SpecStorage == StorageInit /\ [][StorageNext]_vars

\* The child that squash_node hands to extend_child for node, a node of a
\* storage with nodes `nodes`: the child of an extension, or the one child left
\* in a branch without value once the Empty children are removed; NoChild when
\* extend_child is not called.
ExtendedChild(nodes, node) ==
  LET left(children) ==
        IF node.value = None /\ Cardinality({i \in Nibbles : children[i].tag # "None"}) = 1
          THEN children[CHOOSE i \in Nibbles : children[i].tag # "None"]
          ELSE NoChild
  IN  CASE node.kind = "Extension" -> node.child
        [] node.kind = "Branch" ->
             left([i \in Nibbles |->
                     IF /\ node.children[i].tag = "Updated"
                        /\ nodes[node.children[i].id + 1] # Hole
                        /\ nodes[node.children[i].id + 1].node.variant = "Empty"
                       THEN NoChild ELSE node.children[i]])
        [] OTHER -> NoChild

\* C38: when squash_node on a NodesStorage returns a StorageError, the error
\* comes from generic_ensure_updated in extend_child: the node squashed was an
\* extension, or a branch without value left with one child, the child was Old,
\* and the trie could not make it an updated node.  Then no node has been
\* placed, no other slot has changed, among them every slot of a child, no node
\* was added, and the slot squashed, which held a node, is left a hole.
C38_FailedSquashLeavesHole ==
  [][(last'.op = "squash_node" /\ last'.err) =>
       /\ last'.node_id < Len(updated_nodes)
       /\ updated_nodes[last'.node_id + 1] # Hole
       /\ ExtendedChild(updated_nodes,
                        from_trie_node_with_size(updated_nodes[last'.node_id + 1])).tag
            = "Old"
       /\ last'.placed = <<>>
       /\ updated_nodes' = [updated_nodes EXCEPT ![last'.node_id + 1] = Hole]
       /\ memory' = memory
       /\ panic' = NoPanic]_vars

\* squash_node returned a StorageError for a branch; its slot is a hole while the
\* other slots hold their nodes.
C38_Witness ==
  /\ phase = "storage" /\ ops = 1
  /\ last.op = "squash_node" /\ last.err
  /\ last.node_id = 1
  /\ updated_nodes[2] = Hole
  /\ updated_nodes[1] # Hole /\ updated_nodes[1].node.variant = "Branch"
  /\ updated_nodes[3] # Hole /\ updated_nodes[3].node.variant = "Leaf"

\* The handles of TrieNode node and the references they become.
HandlesKept(node, converted) ==
  LET same(handle, ref) ==
        CASE handle.handle = "Hash" -> ref.tag = "Old" /\ ref.id = handle.hash
          [] handle.handle = "InMemory" ->
               ref.tag = "Updated" /\ ref.id = handle.in_memory.storage_handle
          [] OTHER -> ref.tag = "None"
  IN  CASE node.variant = "Branch" ->
             /\ converted.kind = "Branch"
             /\ \A i \in Nibbles : same(node.f0.children_0[i], converted.children[i])
        [] node.variant = "Extension" ->
             converted.kind = "Extension" /\ same(node.f1, converted.child)
        [] node.variant = "Leaf" -> converted.kind = "Leaf"
        [] OTHER -> converted.kind = "Empty"

\* C40: every TrieNodeWithSize n a NodesStorage holds at the start, every one an
\* operation puts into it, and every one its trie holds, is what
\* into_trie_node_with_size gives back, with the memory usage of n, for the node
\* from_trie_node_with_size makes of n; a Hash handle becomes Old with the same
\* hash and an InMemory handle becomes Updated with the same index.
\* So generic_take_node on a slot that holds a node followed by
\* generic_place_node of the node taken leaves the storage as it was.
C40_ConversionRoundTrip ==
  [][/\ \A n \in IF last.op = "none"
                   THEN {updated_nodes[i] : i \in 1..Len(updated_nodes)}
                        \cup {updated_nodes'[i] : i \in 1..Len(updated_nodes')}
                        \cup {memory[h] : h \in DOMAIN memory}
                   ELSE {updated_nodes'[i] : i \in 1..Len(updated_nodes')}
                        \ {updated_nodes[i] : i \in 1..Len(updated_nodes)} :
          n # Hole =>
            /\ into_trie_node_with_size(from_trie_node_with_size(n), n.memory_usage) = n
            /\ HandlesKept(n.node, from_trie_node_with_size(n))
     /\ (last'.op = "take_and_place" /\ updated_nodes[last'.node_id + 1] # Hole) =>
          /\ updated_nodes' = updated_nodes
          /\ memory' = memory
          /\ panic' = NoPanic
          /\ ~last'.err]_vars

\* A branch that holds a Hash handle and an InMemory handle was taken from its
\* slot and placed back.
C40_Witness ==
  /\ phase = "storage"
  /\ last.op = "take_and_place"
  /\ panic = NoPanic
  /\ LET n == updated_nodes[last.node_id + 1]
     IN  /\ n # Hole
         /\ n.node.variant = "Branch"
         /\ n.memory_usage > 0
         /\ n.node.f0.children_0[0].handle = "Hash"
         /\ n.node.f0.children_0[1].handle = "InMemory"

====
